---- MODULE Spec2Model ----
(***************************************************************************)
(* Bucket accounting and disk reservations of bcachefs (libbcachefs        *)
(* buckets.c): the disk reservation pool with its per-CPU caches, the      *)
(* per-CPU sharded usage counters in their live and gc instances, and the  *)
(* bucket mark state machine driven by the key marking engine.             *)
(***************************************************************************)
EXTENDS Integers, Sequences, FiniteSets, TLC

\* ------------------------------------------------------------------------
\* Bounds of the model
\* ------------------------------------------------------------------------

\* calls made in one behaviour of the reservation specification
MaxOps == 2

\* replication levels kept by fs_usage.replicas[]
ReplicasMax == 2

\* possible CPUs; a thread is identified with the CPU it runs on
CPUs == {0, 1}

\* disk reservations held by writers, one for the writer on each CPU; NoRes
\* is a NULL disk_res
ResIds == {1, 2}
NoRes == 0
ResOf(t) == t + 1

\* filesystem capacities, in sectors
Capacities == {130, 1300}

\* sectors hidden by superblock and journal at mount
HiddenInit == {16}

\* sizes asked of bch2_disk_reservation_add
SectorsReq == {1, 64, 200}

\* <<data, reserved>> deltas a transaction hands to bch2_fs_usage_apply
Deltas == {<<0 - 64, 0>>, <<64, 0>>, <<136, 64>>}

\* btree positions handed to gc_visited
Positions == {0, 1}

\* ------------------------------------------------------------------------
\* Data types and usage counters
\* ------------------------------------------------------------------------

DataTypes == {"none", "sb", "journal", "btree", "user", "cached"}

ReplicaZero ==
    [data |-> [t \in DataTypes |-> 0], ec_data |-> 0, persistent_reserved |-> 0]

FsUsageZero ==
    [hidden |-> 0, data |-> 0, cached |-> 0, reserved |-> 0,
     online_reserved |-> 0, nr_inodes |-> 0,
     buckets |-> [t \in DataTypes |-> 0],
     replicas |-> [i \in 1..ReplicasMax |-> ReplicaZero]]

\* bch2_usage_add on struct bch_fs_usage: every u64 of _acc += that of _stats
bch2_usage_add(a, s) ==
    [hidden |-> a.hidden + s.hidden,
     data |-> a.data + s.data,
     cached |-> a.cached + s.cached,
     reserved |-> a.reserved + s.reserved,
     online_reserved |-> a.online_reserved + s.online_reserved,
     nr_inodes |-> a.nr_inodes + s.nr_inodes,
     buckets |-> [t \in DataTypes |-> a.buckets[t] + s.buckets[t]],
     replicas |-> [i \in 1..ReplicasMax |->
        [data |-> [t \in DataTypes |->
                      a.replicas[i].data[t] + s.replicas[i].data[t]],
         ec_data |-> a.replicas[i].ec_data + s.replicas[i].ec_data,
         persistent_reserved |-> a.replicas[i].persistent_reserved
                                 + s.replicas[i].persistent_reserved]]]

RECURSIVE usage_sum_over(_, _)
usage_sum_over(shards, cpus) ==
    IF cpus = {} THEN FsUsageZero
    ELSE LET cpu == CHOOSE x \in cpus : TRUE
         IN  bch2_usage_add(usage_sum_over(shards, cpus \ {cpu}), shards[cpu])

\* bch2_usage_read_raw: the sum of all possible CPUs' shards
bch2_usage_read_raw(shards) == usage_sum_over(shards, CPUs)

RECURSIVE sum_over(_, _)
sum_over(f, S) ==
    IF S = {} THEN 0
    ELSE LET x == CHOOSE y \in S : TRUE IN f[x] + sum_over(f, S \ {x})

Min(a, b) == IF a <= b THEN a ELSE b
Max(a, b) == IF a >= b THEN a ELSE b

\* ------------------------------------------------------------------------
\* Reserve factor
\* ------------------------------------------------------------------------

RESERVE_FACTOR == 6

SECTORS_CACHE == 1024

round_up(x, y) == ((x + y - 1) \div y) * y

reserve_factor(r) ==
    r + (round_up(r, 2 ^ RESERVE_FACTOR) \div (2 ^ RESERVE_FACTOR))

\* an avail_factor that rounds up
avail_factor_rounds_up(r) ==
    ((r + 1) * (2 ^ RESERVE_FACTOR)) \div ((2 ^ RESERVE_FACTOR) + 1)

avail_factor(r) ==
    (r * (2 ^ RESERVE_FACTOR)) \div ((2 ^ RESERVE_FACTOR) + 1)

__bch2_fs_sectors_used(fs_usage) ==
    fs_usage.hidden + fs_usage.data
    + reserve_factor(fs_usage.reserved + fs_usage.online_reserved)

\* bch2_fs_usage_read_short: {capacity, used} of the live shards
bch2_fs_usage_read_short(cap, live) ==
    LET u == bch2_usage_read_raw(live)
        c == cap - u.hidden
    IN  [capacity |-> c,
         used |-> Min(c, u.data + reserve_factor(u.reserved + u.online_reserved)),
         nr_inodes |-> u.nr_inodes]

\* bch2_fs_sectors_free: the short view's capacity less its used
bch2_fs_sectors_free(cap, live) ==
    LET s == bch2_fs_usage_read_short(cap, live) IN s.capacity - s.used

\* ------------------------------------------------------------------------
\* State
\* ------------------------------------------------------------------------

VARIABLES
    capacity,           \* c->capacity
    usage,              \* c->usage[gc][cpu]: fs usage shards, gc = 0 live, 1 gc
    sectors_available,  \* c->sectors_available, the global pool (atomic64)
    pcpu,               \* c->pcpu[cpu].sectors_available, the per-CPU cache
    res,                \* disk_reservation.sectors of each reservation
    rpc,                \* where each thread stands inside bch2_disk_reservation_add
    gc_lock,            \* c->gc_lock: [w: writers, r: readers]
    mark_lock,          \* c->mark_lock: [w: writers, r: readers]
    gc_pos,             \* c->gc_pos, the cursor of gc
    nops,               \* calls made so far
    ndone,              \* calls that have returned
    nofail_called,      \* a call with BCH_DISK_RESERVATION_NOFAIL was made
    last,               \* the call that returned last
    buckets,            \* ca->buckets[gc]->b[b].mark, gc = 0 live, 1 gc
    dev_usage,          \* ca->usage[gc][cpu]: device usage shards
    stripes,            \* c->stripes[gc][idx]
    btree,              \* the keys the btree holds
    alloc_read_done,    \* BCH_FS_ALLOC_READ_DONE of c->flags
    trapped,            \* a BUG_ON fired
    ca,                 \* struct bch_dev: the table and arrays it points at
    mem,                \* what bch2_dev_buckets_resize allocated, by address
    rz,                 \* where bch2_dev_buckets_resize stands, its locals
    thr,                \* where the call of each CPU stands under resize
    journal,            \* c->journal.seq, .last_seq_ondisk, c->last_bucket_seq_cleanup
    calls               \* where each concurrent call stands, its locals

\* the state of the reservation pool
res_vars == <<sectors_available, pcpu, res, rpc, gc_lock, nofail_called>>

\* the state of the marking engine
mark_vars == <<buckets, dev_usage, stripes, btree, alloc_read_done, trapped,
               ca, mem, rz, thr, journal, calls>>

vars == <<capacity, usage, sectors_available, pcpu, res, rpc, gc_lock,
          mark_lock, gc_pos, nops, ndone, nofail_called, last,
          buckets, dev_usage, stripes, btree, alloc_read_done, trapped,
          ca, mem, rz, thr, journal, calls>>

FlagSets == {{}, {"NOFAIL"}, {"GC_LOCK_HELD"}, {"BTREE_LOCKS_HELD"}}

RpcIdle == [pc |-> "idle", r |-> NoRes, n |-> 0, flags |-> {}]

LastNone ==
    [op |-> "none", cpu |-> 0, r |-> NoRes, n |-> 0, flags |-> {},
     ret |-> "ok", path |-> "none", recomputed |-> 0, excess |-> 0,
     ddata |-> 0, dreserved |-> 0,
     pre_pool |-> 0, pre_or |-> 0, pre_res |-> 0, delta |-> FsUsageZero]

LockFree == [w |-> {}, r |-> {}]

\* gc_visited: gc's cursor is at or past the position
gc_visited(pos) == pos <= gc_pos

live_usage == bch2_usage_read_raw(usage[0])

online_reserved_sum == live_usage.online_reserved

cache_sum == sum_over(pcpu, CPUs)

\* a reservation belongs to one writer: no other thread is inside
\* bch2_disk_reservation_add with it
res_idle(r) == \A t \in CPUs : rpc[t].pc = "idle" \/ rpc[t].r # r

\* percpu_down_read_preempt_disable can pin mark_lock
can_read_pin == mark_lock.w = {}

\* ------------------------------------------------------------------------
\* Bucket marks and device usage
\* ------------------------------------------------------------------------

\* the buckets of the device, and its bucket size in sectors
NBuckets == 2
Buckets == 0..(NBuckets - 1)
BucketSize == 16

\* the largest value a sector count of a mark holds
SECTORS_MAX == 32767

\* the stripes of c->stripes[], and the blocks of a stripe
StripeIdxs == {0}
NBlocks == 2

BucketMarkZero ==
    [gen |-> 0, data_type |-> "none", owned_by_allocator |-> FALSE,
     dirty_sectors |-> 0, cached_sectors |-> 0, stripe |-> FALSE,
     journal_seq_valid |-> FALSE, journal_seq |-> 0]

DevUsageZero ==
    [buckets |-> [t \in DataTypes |-> 0], buckets_alloc |-> 0,
     buckets_ec |-> 0, buckets_unavailable |-> 0,
     sectors |-> [t \in DataTypes |-> 0], sectors_fragmented |-> 0]

\* struct stripe; allocated is whether genradix_ptr finds the slot
StripeZero ==
    [allocated |-> TRUE, alive |-> FALSE, sectors |-> 0, algorithm |-> 0,
     nr_blocks |-> 0, nr_redundant |-> 0, blocks_nonempty |-> 0,
     block_sectors |-> [i \in 0..(NBlocks - 1) |-> 0]]

b2i(x) == IF x THEN 1 ELSE 0

\* F of the value of e, which is computed once
with(e, F(_)) == CHOOSE r \in {F(x) : x \in {e}} : TRUE

\* ------------------------------------------------------------------------
\* The bucket table of the device and the arrays beside it
\* ------------------------------------------------------------------------

\* calls of bch2_dev_buckets_resize made while the device is online
MaxResizes == 2

\* the addresses kvpmalloc hands out; NoTable is NULL
Addrs == 0..MaxResizes
NoTable == 0 - 1

\* the thread that runs bch2_dev_buckets_resize
ResizeThread == 2

BITS_PER_LONG == 64

BITS_TO_LONGS(n) == (n + BITS_PER_LONG - 1) \div BITS_PER_LONG

\* What one call of bch2_dev_buckets_resize allocates for n buckets, zeroed:
\* the bucket_array with its marks, the oldest gens, and the two bitsets, each
\* the set of the bits that are set. table and arrays tell whether the
\* bucket_array, and the three arrays, are still allocated.
Allocation(n) ==
    [nbuckets |-> n,
     b |-> [i \in 0..(n - 1) |-> BucketMarkZero],
     oldest_gens |-> [i \in 0..(n - 1) |-> 0],
     buckets_nouse |-> {},
     buckets_written |-> {},
     table |-> "live", arrays |-> "live"]

\* an address nothing was allocated at
Unallocated == [Allocation(0) EXCEPT !.table = "none", !.arrays = "none"]

\* bch2_dev_buckets_resize before it is called
ResizeIdle ==
    [pc |-> "idle", nbuckets |-> 0, buckets |-> NoTable,
     old_buckets |-> NoTable, oldest_gens |-> NoTable,
     buckets_nouse |-> NoTable, buckets_written |-> NoTable,
     ret |-> 0, calls |-> 0]

\* a CPU that is in no call: buckets is the bucket_array the call found, b
\* the bucket it is at, v the mark it read, cached the pointer it marks
ThreadIdle ==
    [pc |-> "idle", buckets |-> NoTable, b |-> 0, v |-> BucketMarkZero,
     cached |-> FALSE]

\* the thread that runs bch2_bucket_seq_cleanup
CleanupThread == 3

\* the thread that runs gc
GcThread == 4

Threads == CPUs \cup {CleanupThread, GcThread}

\* a journal that has written nothing
JournalZero == [seq |-> 0, last_seq_ondisk |-> 0, last_bucket_seq_cleanup |-> 0]

\* the call no thread is in
CallNone ==
    [name |-> "none", gen |-> 0, cached |-> FALSE, sectors |-> 0,
     journal_seq |-> 0, flags |-> {}, owned_by_allocator |-> FALSE,
     type |-> "none", fs |-> TRUE, pos |-> 0]

\* a thread that is in no call: op is the call and its arguments, g the
\* bucket it is at, gc the world it marks, v the mark it read, journal_seq
\* and last_seq_ondisk the locals of bch2_bucket_seq_cleanup
CallIdle ==
    [pc |-> "idle", op |-> CallNone, g |-> 0, gc |-> 0, v |-> BucketMarkZero,
     journal_seq |-> 0, last_seq_ondisk |-> 0]

\* A device whose table is not being resized, and no call in flight
InitDevice ==
    /\ ca = [buckets |-> 0, oldest_gens |-> 0, buckets_nouse |-> 0,
             buckets_written |-> 0, bucket_lock |-> LockFree]
    /\ mem = [a \in Addrs |->
                IF a = 0 THEN Allocation(NBuckets) ELSE Unallocated]
    /\ rz = ResizeIdle
    /\ thr = [t \in CPUs |-> ThreadIdle]
    /\ journal = JournalZero
    /\ calls = [t \in Threads |-> CallIdle]

\* gen_after: (s8) (a - b) when that is positive, else 0
gen_after(a, b) ==
    LET d == (a - b) % 256 IN IF d >= 1 /\ d <= 127 THEN d ELSE 0

is_available_bucket(m) ==
    ~m.owned_by_allocator /\ m.dirty_sectors = 0 /\ ~m.stripe

is_unavailable_bucket(m) == b2i(~is_available_bucket(m))

bucket_sectors_used(m) == m.dirty_sectors + m.cached_sectors

is_fragmented_bucket(m) ==
    IF ~m.owned_by_allocator /\ m.data_type = "user"
       /\ bucket_sectors_used(m) # 0
    THEN Max(0, BucketSize - bucket_sectors_used(m))
    ELSE 0

\* a bucket_type that does not tell cached buckets apart
bucket_type_ignores_cached(m) == m.data_type

bucket_type(m) ==
    IF m.cached_sectors # 0 /\ m.dirty_sectors = 0 THEN "cached"
    ELSE m.data_type

\* no mark ever counts as having become unavailable
became_unavailable_never(old, new) == FALSE

bucket_became_unavailable(old, new) ==
    is_available_bucket(old) /\ ~is_available_bucket(new)

\* a checked_add that stores the wrapped sum and never fails
checked_add_wraps(a, b) ==
    [v |-> (a + b) % (SECTORS_MAX + 1), bug |-> FALSE]

\* checked_add: the sum, and whether it fails to fit the field it is stored
\* in. For a delta b that fits 32 bits, (unsigned) a + b stored into the
\* field reads back as itself exactly when a + b is in 0..SECTORS_MAX.
checked_add(a, b) ==
    [v |-> a + b, bug |-> a + b < 0 \/ a + b > SECTORS_MAX]

\* an account_bucket that counts a bucket taken out of a type as one put in
account_bucket_adds(fs_usage, dev, type, nr, size) ==
    [fs |-> [fs_usage EXCEPT
                !.hidden = IF type \in {"sb", "journal"} THEN @ + size ELSE @,
                !.buckets[type] = @ + size],
     dev |-> [dev EXCEPT !.buckets[type] = @ + (IF nr < 0 THEN 0 - nr ELSE nr)]]

account_bucket(fs_usage, dev, type, nr, size) ==
    [fs |-> [fs_usage EXCEPT
                !.hidden = IF type \in {"sb", "journal"} THEN @ + size ELSE @,
                !.buckets[type] = @ + size],
     dev |-> [dev EXCEPT !.buckets[type] = @ + nr]]

\* bch2_dev_usage_update without lines 388-389: the allocator is not woken
dev_usage_update_never_wakes(fs_usage, dev, old, new) ==
    LET a0 == [fs |-> fs_usage, dev |-> dev]
        a1 == IF bucket_type(old) # "none"
              THEN account_bucket(a0.fs, a0.dev, bucket_type(old),
                                  0 - 1, 0 - BucketSize)
              ELSE a0
        a2 == IF bucket_type(new) # "none"
              THEN account_bucket(a1.fs, a1.dev, bucket_type(new),
                                  1, BucketSize)
              ELSE a1
        s1 == [a2.dev.sectors EXCEPT ![old.data_type] = @ - old.dirty_sectors]
        s2 == [s1 EXCEPT ![new.data_type] = @ + new.dirty_sectors]
        s3 == [s2 EXCEPT !["cached"] =
                  @ + (new.cached_sectors - old.cached_sectors)]
    IN  [fs |-> a2.fs,
         dev |-> [a2.dev EXCEPT
            !.buckets_alloc = @ + (b2i(new.owned_by_allocator)
                                   - b2i(old.owned_by_allocator)),
            !.buckets_ec = @ + (b2i(new.stripe) - b2i(old.stripe)),
            !.buckets_unavailable = @ + (is_unavailable_bucket(new)
                                         - is_unavailable_bucket(old)),
            !.sectors = s3,
            !.sectors_fragmented = @ + (is_fragmented_bucket(new)
                                        - is_fragmented_bucket(old))],
         inconsistent |-> /\ old.data_type # "none"
                          /\ new.data_type # "none"
                          /\ old.data_type # new.data_type,
         wake |-> FALSE]

\* bch2_dev_usage_update: the old -> new delta of one mark, folded into a
\* device usage shard and into fs_usage
bch2_dev_usage_update(fs_usage, dev, old, new) ==
    LET a0 == [fs |-> fs_usage, dev |-> dev]
        a1 == IF bucket_type(old) # "none"
              THEN account_bucket(a0.fs, a0.dev, bucket_type(old),
                                  0 - 1, 0 - BucketSize)
              ELSE a0
        a2 == IF bucket_type(new) # "none"
              THEN account_bucket(a1.fs, a1.dev, bucket_type(new),
                                  1, BucketSize)
              ELSE a1
        s1 == [a2.dev.sectors EXCEPT ![old.data_type] = @ - old.dirty_sectors]
        s2 == [s1 EXCEPT ![new.data_type] = @ + new.dirty_sectors]
        s3 == [s2 EXCEPT !["cached"] =
                  @ + (new.cached_sectors - old.cached_sectors)]
    IN  [fs |-> a2.fs,
         dev |-> [a2.dev EXCEPT
            !.buckets_alloc = @ + (b2i(new.owned_by_allocator)
                                   - b2i(old.owned_by_allocator)),
            !.buckets_ec = @ + (b2i(new.stripe) - b2i(old.stripe)),
            !.buckets_unavailable = @ + (is_unavailable_bucket(new)
                                         - is_unavailable_bucket(old)),
            !.sectors = s3,
            !.sectors_fragmented = @ + (is_fragmented_bucket(new)
                                        - is_fragmented_bucket(old))],
         inconsistent |-> /\ old.data_type # "none"
                          /\ new.data_type # "none"
                          /\ old.data_type # new.data_type,
         wake |-> ~is_available_bucket(old) /\ is_available_bucket(new)]

\* One world (gc = 0 live, gc = 1 gc) as a marking call on one CPU sees it:
\* the bucket marks, this CPU's device usage shard, the fs_usage the call
\* accumulates into, the stripes; and what the call has done so far: trap is
\* a BUG_ON that fired, wake counts bch2_wake_allocator, inconsistent is
\* bch2_fs_inconsistent, old is the mark handed back through *old.
Trap(w) == [w EXCEPT !.trap = TRUE]

\* a bucket_data_cmpxchg that publishes the mark and accounts nothing
data_cmpxchg_unaccounted(w, b, new) == [w EXCEPT !.buckets[b] = new]

\* bucket_data_cmpxchg: new is published over the mark of bucket b and the
\* old -> new delta is accounted
bucket_data_cmpxchg(w, b, new) ==
    with(bch2_dev_usage_update(w.fs, w.dev, w.buckets[b], new), LAMBDA u :
        [w EXCEPT !.buckets[b] = new, !.fs = u.fs, !.dev = u.dev,
                  !.wake = @ + b2i(u.wake),
                  !.inconsistent = @ \/ u.inconsistent])

\* an invalidation that leaves the filesystem's cached totals alone
invalidate_bucket_keeps_cached(w, b) ==
    LET old == w.buckets[b]
        new == [old EXCEPT !.owned_by_allocator = TRUE, !.data_type = "none",
                           !.cached_sectors = 0, !.dirty_sectors = 0,
                           !.gen = (@ + 1) % 256]
        pub == bucket_data_cmpxchg(w, b, new)
    IN  IF ~is_available_bucket(old) THEN Trap(w)
        ELSE [pub EXCEPT !.old = old]

\* the loop of bch2_dev_usage_from_buckets over the buckets i..: every bucket
\* with a data type is accounted as a change from the zero mark
RECURSIVE dev_usage_from_buckets_loop(_, _)
dev_usage_from_buckets_loop(w, i) ==
    IF i \notin DOMAIN w.buckets THEN w
    ELSE IF w.buckets[i].data_type = "none"
         THEN dev_usage_from_buckets_loop(w, i + 1)
         ELSE with(bch2_dev_usage_update(w.fs, w.dev, BucketMarkZero,
                                         w.buckets[i]),
                   LAMBDA u :
                     dev_usage_from_buckets_loop(
                        [w EXCEPT !.fs = u.fs, !.dev = u.dev,
                                  !.wake = @ + b2i(u.wake),
                                  !.inconsistent = @ \/ u.inconsistent],
                        i + 1))

\* bch2_dev_usage_from_buckets, on the live world
bch2_dev_usage_from_buckets(w) == dev_usage_from_buckets_loop(w, 0)

\* __bch2_invalidate_bucket
__bch2_invalidate_bucket(w, b) ==
    LET old == w.buckets[b]
        new == [old EXCEPT !.owned_by_allocator = TRUE, !.data_type = "none",
                           !.cached_sectors = 0, !.dirty_sectors = 0,
                           !.gen = (@ + 1) % 256]
        pub == bucket_data_cmpxchg(w, b, new)
    IN  IF ~is_available_bucket(old) THEN Trap(w)
        ELSE [pub EXCEPT
                !.old = old,
                !.fs.replicas[1].data["cached"] = @ - old.cached_sectors,
                !.fs.cached = @ - old.cached_sectors]

\* __bch2_mark_alloc_bucket
mark_alloc_bucket_never_traps(w, b, owned_by_allocator, gc) ==
    LET old == w.buckets[b]
        new == [old EXCEPT !.owned_by_allocator = owned_by_allocator]
    IN  bucket_data_cmpxchg(w, b, new)

__bch2_mark_alloc_bucket(w, b, owned_by_allocator, gc) ==
    LET old == w.buckets[b]
        new == [old EXCEPT !.owned_by_allocator = owned_by_allocator]
        pub == bucket_data_cmpxchg(w, b, new)
    IN  IF ~gc /\ ~owned_by_allocator /\ ~old.owned_by_allocator
        THEN Trap(pub) ELSE pub

\* __bch2_mark_metadata_bucket
__bch2_mark_metadata_bucket(w, b, type, sectors) ==
    LET old == w.buckets[b]
        sum == checked_add(old.dirty_sectors, sectors)
        new == [old EXCEPT !.data_type = type, !.dirty_sectors = sum.v]
        pub == bucket_data_cmpxchg(w, b, new)
    IN  IF type \notin {"sb", "journal"} \/ sum.bug THEN Trap(w)
        ELSE [pub EXCEPT
                !.fs.data = IF type \in {"btree", "user"} THEN @ + sectors
                            ELSE @,
                !.fs.replicas[1].data[type] = @ + sectors]

\* ------------------------------------------------------------------------
\* The key marking engine
\* ------------------------------------------------------------------------

\* PTR_BUCKET_NR: the bucket a pointer's sector offset falls into
PTR_BUCKET_NR(ptr) == ptr.offset \div BucketSize

\* ptr_stale: the live mark's gen is after the pointer's
ptr_stale(live_buckets, ptr) ==
    gen_after(live_buckets[PTR_BUCKET_NR(ptr)].gen, ptr.gen) > 0

DIV_ROUND_UP(n, d) == (n + d - 1) \div d

abs(x) == IF x < 0 THEN 0 - x ELSE x

clamp(x, lo, hi) == Min(Max(x, lo), hi)

\* __ptr_disk_sectors: live_size sectors of the extent as the pointer's
\* compression leaves them on disk
__ptr_disk_sectors(p, live_size) ==
    IF live_size # 0 /\ p.crc.compression_type # 0
    THEN Max(1, DIV_ROUND_UP(live_size * p.crc.compressed_size,
                             p.crc.uncompressed_size))
    ELSE live_size

ptr_disk_sectors(p) == __ptr_disk_sectors(p, p.crc.live_size)

\* ptr_disk_sectors_delta: bug is its BUG_ON
ptr_disk_sectors_delta(p, delta) ==
    IF delta > 0
    THEN [v |-> __ptr_disk_sectors(p, delta), bug |-> FALSE]
    ELSE IF (0 - delta) > p.crc.live_size
         THEN [v |-> 0, bug |-> TRUE]
         ELSE [v |-> __ptr_disk_sectors(p, p.crc.live_size + delta)
                     - ptr_disk_sectors(p),
               bug |-> FALSE]

\* a mark_pointer that does not look at the gens
mark_pointer_ignores_gen(w, p, sectors, data_type, journal_seq, gc) ==
    LET b == PTR_BUCKET_NR(p)
        old == w.buckets[b]
        sum == checked_add(IF p.cached THEN old.cached_sectors
                           ELSE old.dirty_sectors, sectors)
        n1 == IF p.cached THEN [old EXCEPT !.cached_sectors = sum.v]
              ELSE [old EXCEPT !.dirty_sectors = sum.v]
        new == IF n1.dirty_sectors = 0 /\ n1.cached_sectors = 0
               THEN [n1 EXCEPT
                       !.data_type = "none",
                       !.journal_seq_valid = IF journal_seq # 0 THEN TRUE ELSE @,
                       !.journal_seq = IF journal_seq # 0 THEN journal_seq ELSE @]
               ELSE [n1 EXCEPT !.data_type = data_type]
        pub == bucket_data_cmpxchg(w, b, new)
    IN  IF sum.bug THEN Trap(w)
        ELSE IF ~gc /\ bucket_became_unavailable(old, new)
             THEN Trap(pub) ELSE pub

\* a mark_pointer that leaves the data type of an emptied bucket in place
mark_pointer_keeps_type(w, p, sectors, data_type, journal_seq, gc) ==
    LET b == PTR_BUCKET_NR(p)
        old == w.buckets[b]
        sum == checked_add(IF p.cached THEN old.cached_sectors
                           ELSE old.dirty_sectors, sectors)
        n1 == IF p.cached THEN [old EXCEPT !.cached_sectors = sum.v]
              ELSE [old EXCEPT !.dirty_sectors = sum.v]
        new == [n1 EXCEPT !.data_type = data_type]
        pub == bucket_data_cmpxchg(w, b, new)
    IN  IF gen_after(old.gen, p.gen) > 0
        THEN IF ~w.alloc_read_done THEN Trap(w) ELSE w
        ELSE IF sum.bug THEN Trap(w)
        ELSE IF ~gc /\ bucket_became_unavailable(old, new)
             THEN Trap(pub) ELSE pub

\* a bch2_mark_pointer that stamps every mark it publishes
mark_pointer_stamps_always(w, p, sectors, data_type, journal_seq, gc) ==
    LET b == PTR_BUCKET_NR(p)
        old == w.buckets[b]
        sum == checked_add(IF p.cached THEN old.cached_sectors
                           ELSE old.dirty_sectors, sectors)
        n1 == IF p.cached THEN [old EXCEPT !.cached_sectors = sum.v]
              ELSE [old EXCEPT !.dirty_sectors = sum.v]
        new == [n1 EXCEPT
                  !.data_type = IF n1.dirty_sectors = 0 /\ n1.cached_sectors = 0
                                THEN "none" ELSE data_type,
                  !.journal_seq_valid = IF journal_seq # 0 THEN TRUE ELSE @,
                  !.journal_seq = IF journal_seq # 0 THEN journal_seq ELSE @]
        pub == bucket_data_cmpxchg(w, b, new)
    IN  IF gen_after(old.gen, p.gen) > 0
        THEN IF ~w.alloc_read_done THEN Trap(w) ELSE w
        ELSE IF sum.bug THEN Trap(w)
        ELSE IF ~gc /\ bucket_became_unavailable(old, new)
             THEN Trap(pub) ELSE pub

\* bch2_mark_pointer: the cmpxchg loop as the one atomic update it publishes
bch2_mark_pointer(w, p, sectors, data_type, journal_seq, gc) ==
    LET b == PTR_BUCKET_NR(p)
        old == w.buckets[b]
        sum == checked_add(IF p.cached THEN old.cached_sectors
                           ELSE old.dirty_sectors, sectors)
        n1 == IF p.cached THEN [old EXCEPT !.cached_sectors = sum.v]
              ELSE [old EXCEPT !.dirty_sectors = sum.v]
        new == IF n1.dirty_sectors = 0 /\ n1.cached_sectors = 0
               THEN [n1 EXCEPT
                       !.data_type = "none",
                       !.journal_seq_valid = IF journal_seq # 0 THEN TRUE ELSE @,
                       !.journal_seq = IF journal_seq # 0 THEN journal_seq ELSE @]
               ELSE [n1 EXCEPT !.data_type = data_type]
        pub == bucket_data_cmpxchg(w, b, new)
    IN  IF gen_after(old.gen, p.gen) > 0
        THEN IF ~w.alloc_read_done THEN Trap(w) ELSE w
        ELSE IF sum.bug THEN Trap(w)
        ELSE IF ~gc /\ bucket_became_unavailable(old, new)
             THEN Trap(pub) ELSE pub

\* bch2_mark_stripe_ptr: ret = -1 when the stripe is missing or dead
bch2_mark_stripe_ptr(w, p, sectors, adjusted_disk_sectors, redundancy) ==
    LET m == w.stripes[p.idx]
        nr_data == m.nr_blocks - m.nr_redundant
        parity == DIV_ROUND_UP(abs(sectors) * m.nr_redundant, nr_data)
        parity_sectors == IF sectors < 0 THEN 0 - parity ELSE parity
        new == m.block_sectors[p.block] + sectors
        old == new - sectors
        blocks_nonempty_delta == b2i(new # 0) - b2i(old # 0)
        m2 == [m EXCEPT !.block_sectors[p.block] = new,
                        !.blocks_nonempty = @ + blocks_nonempty_delta]
        w2 == [w EXCEPT !.stripes[p.idx] = m2]
    IN  IF p.idx \notin DOMAIN w.stripes \/ ~m.allocated \/ ~m.alive
        THEN [w |-> w, ret |-> 0 - 1,
              adjusted_disk_sectors |-> adjusted_disk_sectors,
              redundancy |-> redundancy]
        ELSE [w |-> IF m2.blocks_nonempty < 0 THEN Trap(w2) ELSE w2,
              ret |-> 0,
              adjusted_disk_sectors |-> adjusted_disk_sectors + parity_sectors,
              redundancy |-> Max(redundancy, m.nr_redundant + 1)]

\* the stripe pointers p.ec[i..] of one extent pointer, in order
RECURSIVE mark_stripe_ptrs(_, _, _, _)
mark_stripe_ptrs(acc, ec, i, sectors) ==
    IF i > Len(ec) \/ acc.ret # 0 \/ acc.w.trap THEN acc
    ELSE with(bch2_mark_stripe_ptr(acc.w, ec[i], sectors,
                                   acc.adjusted_disk_sectors, acc.redundancy),
              LAMBDA r : mark_stripe_ptrs(r, ec, i + 1, sectors))

\* the body of the loop of bch2_mark_extent for the pointers ptrs[i..]
RECURSIVE mark_extent_ptrs(_, _, _, _, _, _, _)
mark_extent_ptrs(acc, ptrs, i, sectors, data_type, journal_seq, gc) ==
    IF i > Len(ptrs) \/ acc.ret # 0 \/ acc.w.trap THEN acc
    ELSE
    LET p == ptrs[i]
        d == IF data_type = "btree" THEN [v |-> sectors, bug |-> FALSE]
             ELSE ptr_disk_sectors_delta(p, sectors)
        disk_sectors == d.v
        stripe_ptrs(w1) ==
            IF p.cached
            THEN [w |-> w1, ret |-> 0,
                  adjusted_disk_sectors |-> disk_sectors,
                  redundancy |-> acc.ec_redundancy]
            ELSE mark_stripe_ptrs(
                    [w |-> w1, ret |-> 0,
                     adjusted_disk_sectors |-> disk_sectors,
                     redundancy |-> acc.ec_redundancy],
                    p.ec, 1, disk_sectors)
        next(e) ==
            [w |-> e.w, ret |-> e.ret,
             ec_redundancy |-> e.redundancy,
             replicas |-> acc.replicas + b2i(~p.cached),
             cached_sectors |-> acc.cached_sectors
                + (IF p.cached THEN e.adjusted_disk_sectors ELSE 0),
             dirty_sectors |-> acc.dirty_sectors
                + (IF ~p.cached /\ Len(p.ec) = 0
                   THEN e.adjusted_disk_sectors ELSE 0),
             ec_sectors |-> acc.ec_sectors
                + (IF ~p.cached /\ Len(p.ec) # 0
                   THEN e.adjusted_disk_sectors ELSE 0)]
    IN  IF d.bug THEN [acc EXCEPT !.w = Trap(acc.w)]
        ELSE
        with(bch2_mark_pointer(acc.w, p, disk_sectors, data_type,
                               journal_seq, gc), LAMBDA w1 :
        with(stripe_ptrs(w1), LAMBDA e :
            IF e.ret # 0 \/ e.w.trap
            THEN [acc EXCEPT !.w = e.w, !.ret = e.ret]
            ELSE with(next(e), LAMBDA n :
                    mark_extent_ptrs(n, ptrs, i + 1, sectors, data_type,
                                     journal_seq, gc))))

\* bch2_mark_extent
bch2_mark_extent(w, k, sectors, data_type, journal_seq, gc) ==
    LET fold(a) ==
            LET replicas == clamp(a.replicas, 1, ReplicasMax)
                ec_redundancy == clamp(a.ec_redundancy, 1, ReplicasMax)
                f1 == [a.w.fs EXCEPT
                         !.cached = @ + a.cached_sectors,
                         !.replicas[1].data["cached"] = @ + a.cached_sectors]
                f2 == [f1 EXCEPT
                         !.data = @ + a.dirty_sectors,
                         !.replicas[replicas].data[data_type] =
                            @ + a.dirty_sectors]
                f3 == [f2 EXCEPT
                         !.data = @ + a.ec_sectors,
                         !.replicas[ec_redundancy].ec_data = @ + a.ec_sectors]
            IN  IF a.ret # 0 \/ a.w.trap THEN [w |-> a.w, ret |-> a.ret]
                ELSE [w |-> [a.w EXCEPT !.fs = f3], ret |-> 0]
    IN  IF sectors = 0 THEN [w |-> Trap(w), ret |-> 0]
        ELSE with(mark_extent_ptrs(
                    [w |-> w, ret |-> 0, ec_redundancy |-> 0, replicas |-> 0,
                     cached_sectors |-> 0, dirty_sectors |-> 0,
                     ec_sectors |-> 0],
                    k.ptrs, 1, sectors, data_type, journal_seq, gc),
                  LAMBDA a : fold(a))

\* the loop of bucket_set_stripe over the stripe's blocks ptrs[i..]
RECURSIVE set_stripe_ptrs(_, _, _, _, _, _)
set_stripe_ptrs(w, ptrs, i, enabled, journal_seq, live) ==
    IF i > Len(ptrs) \/ w.trap THEN w
    ELSE
    LET b == PTR_BUCKET_NR(ptrs[i])
        old == w.buckets[b]
        new == [old EXCEPT
                  !.stripe = enabled,
                  !.journal_seq_valid = IF journal_seq # 0 THEN TRUE ELSE @,
                  !.journal_seq = IF journal_seq # 0 THEN journal_seq ELSE @]
        pub == bucket_data_cmpxchg(w, b, new)
    IN  IF ptr_stale(live, ptrs[i]) THEN Trap(w)
        ELSE IF old.stripe = enabled THEN Trap(pub)
        ELSE with(pub, LAMBDA w1 :
                set_stripe_ptrs(w1, ptrs, i + 1, enabled, journal_seq, live))

bucket_set_stripe(w, v, enabled, journal_seq, live) ==
    set_stripe_ptrs(w, SubSeq(v.ptrs, 1, v.nr_blocks), 1, enabled,
                    journal_seq, live)

\* bch2_mark_stripe; in the live world bch2_stripes_heap_insert and
\* bch2_stripes_heap_del set and clear alive
bch2_mark_stripe(w, k, inserting, gc, live) ==
    LET idx == k.idx
        m == w.stripes[idx]
        m1 == IF inserting
              THEN [m EXCEPT !.sectors = k.sectors,
                             !.algorithm = k.algorithm,
                             !.nr_blocks = k.nr_blocks,
                             !.nr_redundant = k.nr_redundant]
              ELSE m
        m2 == [m1 EXCEPT !.alive = inserting]
        w1 == [w EXCEPT !.stripes[idx] = m2]
    IN  IF idx \notin DOMAIN w.stripes \/ ~m.allocated
           \/ (~inserting /\ ~m.alive)
        THEN [w |-> w, ret |-> 0 - 1]
        ELSE IF inserting /\ m.alive THEN [w |-> w, ret |-> 0 - 1]
        ELSE IF m.blocks_nonempty # 0
                \/ \E i \in DOMAIN m.block_sectors : m.block_sectors[i] # 0
             THEN [w |-> Trap(w), ret |-> 0]
        ELSE [w |-> bucket_set_stripe(w1, k, inserting, 0, live), ret |-> 0]

\* c->opts.btree_node_size, in sectors
btree_node_size == 8

\* __bch2_mark_key: one world's marking of a key; live is the live bucket
\* table, which ptr_stale reads in either world
__bch2_mark_key(w, k, inserting, sectors, journal_seq, gc, live) ==
    CASE k.type = "btree_ptr" ->
            bch2_mark_extent(w, k,
                IF inserting THEN btree_node_size ELSE 0 - btree_node_size,
                "btree", journal_seq, gc)
      [] k.type = "extent" ->
            bch2_mark_extent(w, k, sectors, "user", journal_seq, gc)
      [] k.type = "stripe" ->
            bch2_mark_stripe(w, k, inserting, gc, live)
      [] k.type = "alloc" ->
            [w |-> [w EXCEPT !.fs.nr_inodes =
                        IF inserting THEN @ + 1 ELSE @ - 1],
             ret |-> 0]
      [] k.type = "reservation" ->
            LET replicas == clamp(k.nr_replicas, 1, ReplicasMax)
                s == sectors * k.nr_replicas
            IN  [w |-> [w EXCEPT
                          !.fs.reserved = @ + s,
                          !.fs.replicas[replicas].persistent_reserved = @ + s],
                 ret |-> 0]
      [] OTHER -> [w |-> w, ret |-> 0]

\* a dispatch that marks the gc world only on the caller's request
mark_key_locked_gc_flag_only(lw, gw, k, inserting, sectors, visited, journal_seq, flags) ==
    LET live(x) ==
            IF "GC" \notin flags
            THEN __bch2_mark_key(lw, k, inserting, sectors, journal_seq,
                                 FALSE, lw.buckets)
            ELSE [w |-> lw, ret |-> 0]
        gc(r0) ==
            IF r0.ret = 0 /\ ~r0.w.trap /\ "GC" \in flags
            THEN __bch2_mark_key(gw, k, inserting, sectors, journal_seq,
                                 TRUE, r0.w.buckets)
            ELSE [w |-> gw, ret |-> 0]
    IN  with(live(0), LAMBDA r0 :
        with(gc(r0), LAMBDA r1 :
            [live |-> r0.w, gc |-> r1.w,
             ret |-> IF r0.ret # 0 THEN r0.ret ELSE r1.ret]))

\* bch2_mark_key_locked with a NULL fs_usage: the live world unless the caller
\* asked for gc marking, then the gc world if it asked or gc has visited pos
bch2_mark_key_locked(lw, gw, k, inserting, sectors, visited, journal_seq, flags) ==
    LET live(x) ==
            IF "GC" \notin flags
            THEN __bch2_mark_key(lw, k, inserting, sectors, journal_seq,
                                 FALSE, lw.buckets)
            ELSE [w |-> lw, ret |-> 0]
        gc(r0) ==
            IF r0.ret = 0 /\ ~r0.w.trap /\ ("GC" \in flags \/ visited)
            THEN __bch2_mark_key(gw, k, inserting, sectors, journal_seq,
                                 TRUE, r0.w.buckets)
            ELSE [w |-> gw, ret |-> 0]
    IN  with(live(0), LAMBDA r0 :
        with(gc(r0), LAMBDA r1 :
            [live |-> r0.w, gc |-> r1.w,
             ret |-> IF r0.ret # 0 THEN r0.ret ELSE r1.ret]))

\* bch2_mark_alloc_bucket
bch2_mark_alloc_bucket(lw, gw, b, owned_by_allocator, visited, flags) ==
    LET gc(l1) ==
            IF ~l1.trap /\ ("GC" \in flags \/ visited)
            THEN __bch2_mark_alloc_bucket(gw, b, owned_by_allocator, TRUE)
            ELSE gw
    IN  with(IF "GC" \notin flags
             THEN __bch2_mark_alloc_bucket(lw, b, owned_by_allocator, FALSE)
             ELSE lw,
             LAMBDA l1 : [live |-> l1, gc |-> gc(l1), ret |-> 0])

\* bch2_mark_metadata_bucket with a filesystem (c is not NULL)
bch2_mark_metadata_bucket(lw, gw, b, type, sectors, visited, flags) ==
    LET gc(l1) ==
            IF ~l1.trap /\ ("GC" \in flags \/ visited)
            THEN __bch2_mark_metadata_bucket(gw, b, type, sectors)
            ELSE gw
    IN  IF type \notin {"sb", "journal"}
        THEN [live |-> Trap(lw), gc |-> gw, ret |-> 0]
        ELSE with(IF "GC" \notin flags
                  THEN __bch2_mark_metadata_bucket(lw, b, type, sectors)
                  ELSE lw,
                  LAMBDA l1 : [live |-> l1, gc |-> gc(l1), ret |-> 0])

\* bkey_start_offset: a key's pos is the offset its extent ends at
bkey_start_offset(k) == k.pos - k.size

\* bch2_extent_overlap: how the key k being inserted overlaps the key m
bch2_extent_overlap(k, m) ==
    IF k.pos >= m.pos
    THEN IF bkey_start_offset(k) <= bkey_start_offset(m) THEN "ALL"
         ELSE "BACK"
    ELSE IF bkey_start_offset(k) <= bkey_start_offset(m) THEN "FRONT"
         ELSE "MIDDLE"

\* the loop of bch2_mark_update over the keys keys[i..] of the node, from the
\* iterator's position on; acc holds the two worlds, the live one with the
\* transaction's fs_usage for its usage
RECURSIVE mark_update_walk(_, _, _, _, _, _)
mark_update_walk(acc, keys, i, insert, visited, journal_seq) ==
    IF i > Len(keys) \/ acc.live.trap \/ acc.gc.trap THEN acc
    ELSE
    LET k == keys[i]
        overlap == bch2_extent_overlap(insert, k)
        split == k.pos - insert.pos
        sectors ==
            CASE overlap = "ALL" -> 0 - k.size
              [] overlap = "BACK" -> bkey_start_offset(insert) - k.pos
              [] overlap = "FRONT" -> bkey_start_offset(k) - insert.pos
              [] overlap = "MIDDLE" -> bkey_start_offset(insert) - k.pos
        remark(a) ==
            IF overlap # "MIDDLE" THEN a
            ELSE IF split <= 0 THEN [a EXCEPT !.live = Trap(a.live)]
            ELSE bch2_mark_key_locked(a.live, a.gc, k, TRUE, split, visited,
                                      journal_seq, {})
        unmark(a) ==
            IF a.live.trap \/ a.gc.trap THEN a
            ELSE IF sectors >= 0 THEN [a EXCEPT !.live = Trap(a.live)]
            ELSE bch2_mark_key_locked(a.live, a.gc, k, FALSE, sectors,
                                      visited, journal_seq, {})
    IN  IF insert.pos <= bkey_start_offset(k) THEN acc
        ELSE with(remark(acc), LAMBDA a1 :
             with(unmark(a1), LAMBDA a2 :
                mark_update_walk(a2, keys, i + 1, insert, visited,
                                 journal_seq)))

\* a mark_update that marks the inserted key during journal replay as well
mark_update_marks_on_replay(lw, gw, keys, node_end, insert, visited, journal_seq, replay) ==
    with(bch2_mark_key_locked(lw, gw, insert, TRUE,
            Min(insert.pos, node_end) - bkey_start_offset(insert),
            visited, journal_seq, {}),
         LAMBDA a1 :
            mark_update_walk(a1,
                SelectSeq(keys, LAMBDA k :
                    k.type # "deleted" /\ k.pos > bkey_start_offset(insert)),
                1, insert, visited, journal_seq))

\* bch2_mark_update up to its bch2_fs_usage_apply, for a node of extents
\* that ends at node_end: the key is marked as inserted, clipped to the
\* node, unless the journal is being replayed; then what it overlaps is
\* unmarked
bch2_mark_update(lw, gw, keys, node_end, insert, visited, journal_seq, replay) ==
    LET a0 == [live |-> lw, gc |-> gw, ret |-> 0]
        first(a) ==
            IF replay THEN a
            ELSE bch2_mark_key_locked(a.live, a.gc, insert, TRUE,
                    Min(insert.pos, node_end) - bkey_start_offset(insert),
                    visited, journal_seq, {})
    IN  with(first(a0), LAMBDA a1 :
            mark_update_walk(a1,
                SelectSeq(keys, LAMBDA k :
                    k.type # "deleted" /\ k.pos > bkey_start_offset(insert)),
                1, insert, visited, journal_seq))

\* ------------------------------------------------------------------------
\* Disk reservations
\* ------------------------------------------------------------------------

\* bch2_recalc_sectors_available: every CPU's cache is zeroed, and the pool
\* that is admissible is avail_factor of the free sectors
bch2_recalc_sectors_available(cap, live) ==
    [pcpu |-> [cpu \in CPUs |-> 0],
     avail |-> avail_factor(bch2_fs_sectors_free(cap, live))]

\* a put that zeroes res->sectors and forgets online_reserved
put_keeps_online_reserved(live, cpu, sectors) ==
    [live |-> live, sectors |-> 0]

\* a release that forgets res->sectors = 0
put_keeps_sectors(live, cpu, sectors) ==
    [live |-> [live EXCEPT ![cpu].online_reserved = @ - sectors],
     sectors |-> sectors]

\* __bch2_disk_reservation_put: this CPU's online_reserved loses res->sectors,
\* and res->sectors is zeroed
__bch2_disk_reservation_put(live, cpu, sectors) ==
    [live |-> [live EXCEPT ![cpu].online_reserved = @ - sectors],
     sectors |-> 0]

\* what the cmpxchg loop of bch2_disk_reservation_add withdraws from the pool:
\* min(sectors + SECTORS_CACHE, old) on u64, so that a pool that atomic64_sub
\* took below zero reads as a huge one
reservation_get(sectors, old) ==
    IF old < 0 THEN sectors + SECTORS_CACHE
    ELSE Min(sectors + SECTORS_CACHE, old)

\* bch2_disk_reservation_add up to the out: label, under the read pin: served
\* from this CPU's cache, or from a withdrawal of the pool, or not at all
reservation_add_fast(pool, cache, sectors) ==
    IF sectors <= cache
    THEN [path |-> "cache", pool |-> pool, cache |-> cache - sectors]
    ELSE LET get == reservation_get(sectors, pool)
         IN  IF get < sectors
             THEN [path |-> "recalculate", pool |-> pool, cache |-> cache]
             ELSE [path |-> "pool", pool |-> pool - get,
                   cache |-> (cache + get) - sectors]

\* a recalculation that charges the pool before it looks whether n fits
recalculate_charges_first(cap, live, sectors, flags) ==
    LET rc == bch2_recalc_sectors_available(cap, live)
    IN  IF sectors <= rc.avail \/ "NOFAIL" \in flags
        THEN [ret |-> "ok", pcpu |-> rc.pcpu, recomputed |-> rc.avail,
              pool |-> Max(0, rc.avail - sectors), credit |-> sectors]
        ELSE [ret |-> "NoSpace", pcpu |-> rc.pcpu, recomputed |-> rc.avail,
              pool |-> Max(0, rc.avail - sectors), credit |-> 0]

\* a recalculation that forgets BCH_DISK_RESERVATION_NOFAIL
recalculate_ignores_nofail(cap, live, sectors, flags) ==
    LET rc == bch2_recalc_sectors_available(cap, live)
    IN  IF sectors <= rc.avail
        THEN [ret |-> "ok", pcpu |-> rc.pcpu, recomputed |-> rc.avail,
              pool |-> Max(0, rc.avail - sectors), credit |-> sectors]
        ELSE [ret |-> "NoSpace", pcpu |-> rc.pcpu, recomputed |-> rc.avail,
              pool |-> rc.avail, credit |-> 0]

\* bch2_disk_reservation_add under mark_lock held for write
reservation_add_recalculate(cap, live, sectors, flags) ==
    LET rc == bch2_recalc_sectors_available(cap, live)
    IN  IF sectors <= rc.avail \/ "NOFAIL" \in flags
        THEN [ret |-> "ok", pcpu |-> rc.pcpu, recomputed |-> rc.avail,
              pool |-> Max(0, rc.avail - sectors), credit |-> sectors]
        ELSE [ret |-> "NoSpace", pcpu |-> rc.pcpu, recomputed |-> rc.avail,
              pool |-> rc.avail, credit |-> 0]

\* an apply that charges the reservation and forgets online_reserved
apply_keeps_online_reserved(fs_usage, disk_res_sectors, has_res, visited, live, gcu, cpu, pool) ==
    LET added0 == fs_usage.data + fs_usage.reserved
        should_not_have_added ==
            added0 - (IF has_res THEN disk_res_sectors ELSE 0)
        warned == should_not_have_added > 0
        added == IF warned THEN added0 - should_not_have_added ELSE added0
        charged == IF added > 0 THEN added ELSE 0
    IN  [pool |-> IF warned THEN pool - should_not_have_added ELSE pool,
         excess |-> IF warned THEN should_not_have_added ELSE 0,
         added |-> charged,
         sectors |-> disk_res_sectors - charged,
         live |-> [live EXCEPT ![cpu] = bch2_usage_add(@, fs_usage)],
         gcu |-> IF visited
                 THEN [gcu EXCEPT ![cpu] = bch2_usage_add(@, fs_usage)]
                 ELSE gcu,
         delta |-> FsUsageZero]

\* an apply that hands the excess to the pool instead of taking it
apply_repays_excess(fs_usage, disk_res_sectors, has_res, visited, live, gcu, cpu, pool) ==
    LET added0 == fs_usage.data + fs_usage.reserved
        should_not_have_added ==
            added0 - (IF has_res THEN disk_res_sectors ELSE 0)
        warned == should_not_have_added > 0
        added == IF warned THEN added0 - should_not_have_added ELSE added0
        charged == IF added > 0 THEN added ELSE 0
        folded == [fs_usage EXCEPT !.online_reserved = @ - charged]
    IN  [pool |-> IF warned THEN pool + should_not_have_added ELSE pool,
         excess |-> IF warned THEN should_not_have_added ELSE 0,
         added |-> charged,
         sectors |-> disk_res_sectors - charged,
         live |-> [live EXCEPT ![cpu] = bch2_usage_add(@, folded)],
         gcu |-> IF visited
                 THEN [gcu EXCEPT ![cpu] = bch2_usage_add(@, folded)]
                 ELSE gcu,
         delta |-> FsUsageZero]

\* bch2_fs_usage_apply: the delta is charged to the reservation, folded into
\* the live shard (and the gc shard if gc has visited pos) and zeroed
bch2_fs_usage_apply(fs_usage, disk_res_sectors, has_res, visited, live, gcu, cpu, pool) ==
    LET added0 == fs_usage.data + fs_usage.reserved
        should_not_have_added ==
            added0 - (IF has_res THEN disk_res_sectors ELSE 0)
        warned == should_not_have_added > 0
        added == IF warned THEN added0 - should_not_have_added ELSE added0
        charged == IF added > 0 THEN added ELSE 0
        folded == [fs_usage EXCEPT !.online_reserved = @ - charged]
    IN  [pool |-> IF warned THEN pool - should_not_have_added ELSE pool,
         excess |-> IF warned THEN should_not_have_added ELSE 0,
         added |-> charged,
         sectors |-> disk_res_sectors - charged,
         live |-> [live EXCEPT ![cpu] = bch2_usage_add(@, folded)],
         gcu |-> IF visited
                 THEN [gcu EXCEPT ![cpu] = bch2_usage_add(@, folded)]
                 ELSE gcu,
         delta |-> FsUsageZero]

\* the delta a transaction accumulated: data of one replica, and a reservation
transaction_delta(ddata, dreserved) ==
    [FsUsageZero EXCEPT
        !.data = ddata, !.reserved = dreserved,
        !.replicas[1].data["user"] = ddata,
        !.replicas[1].persistent_reserved = dreserved]

InitRes ==
    /\ capacity \in Capacities
    /\ \E h \in HiddenInit :
         usage = [gc \in {0, 1} |-> [cpu \in CPUs |->
                    IF cpu = 0 THEN [FsUsageZero EXCEPT !.hidden = h]
                    ELSE FsUsageZero]]
    /\ sectors_available =
          bch2_recalc_sectors_available(capacity, usage[0]).avail
    /\ pcpu = [cpu \in CPUs |-> 0]
    /\ res = [r \in ResIds |-> 0]
    /\ rpc = [t \in CPUs |-> RpcIdle]
    /\ gc_lock = LockFree
    /\ mark_lock = LockFree
    /\ gc_pos = 0
    /\ nops = 0
    /\ ndone = 0
    /\ nofail_called = FALSE
    /\ last = LastNone
    /\ buckets = [gc \in {0, 1} |-> [b \in Buckets |-> BucketMarkZero]]
    /\ dev_usage = [gc \in {0, 1} |-> [cpu \in CPUs |-> DevUsageZero]]
    /\ stripes = [gc \in {0, 1} |-> [i \in StripeIdxs |-> StripeZero]]
    /\ btree = {}
    /\ alloc_read_done = TRUE
    /\ trapped = FALSE
    /\ InitDevice

\* bch2_disk_reservation_add, lines 1023-1051: the read-pinned part. With
\* GC_LOCK_HELD the caller holds gc_lock from before the call to its return.
ReservationAdd(t, r, n, flags) ==
    /\ nops < MaxOps
    /\ rpc[t].pc = "idle"
    /\ res_idle(r)
    /\ can_read_pin
    /\ "GC_LOCK_HELD" \in flags => gc_lock = LockFree
    /\ LET f == reservation_add_fast(sectors_available, pcpu[t], n)
       IN  IF f.path = "recalculate"
           THEN /\ rpc' = [rpc EXCEPT ![t] =
                            [pc |-> "recalculate", r |-> r, n |-> n, flags |-> flags]]
                /\ gc_lock' = IF "GC_LOCK_HELD" \in flags
                              THEN [gc_lock EXCEPT !.w = {t}] ELSE gc_lock
                /\ UNCHANGED <<sectors_available, pcpu, usage, res, ndone, last>>
           ELSE /\ sectors_available' = f.pool
                /\ pcpu' = [pcpu EXCEPT ![t] = f.cache]
                /\ usage' = [usage EXCEPT ![0][t].online_reserved = @ + n]
                /\ res' = [res EXCEPT ![r] = @ + n]
                /\ ndone' = ndone + 1
                /\ last' = [LastNone EXCEPT
                              !.op = "add", !.cpu = t, !.r = r, !.n = n,
                              !.flags = flags, !.ret = "ok", !.path = f.path,
                              !.pre_pool = sectors_available,
                              !.pre_or = online_reserved_sum,
                              !.pre_res = res[r]]
                /\ UNCHANGED <<rpc, gc_lock>>
    /\ nops' = nops + 1
    /\ nofail_called' = (nofail_called \/ "NOFAIL" \in flags)
    /\ UNCHANGED <<capacity, mark_lock, gc_pos>>
    /\ UNCHANGED mark_vars

\* lines 1064-1069: down_read(gc_lock), which waits for a writer to leave
ReservationGcLock(t) ==
    /\ rpc[t].pc = "recalculate"
    /\ \/ /\ "GC_LOCK_HELD" \in rpc[t].flags
          /\ UNCHANGED gc_lock
       \/ /\ "GC_LOCK_HELD" \notin rpc[t].flags
          /\ gc_lock.w = {}
          /\ gc_lock' = [gc_lock EXCEPT !.r = @ \cup {t}]
    /\ rpc' = [rpc EXCEPT ![t].pc = "mark_lock"]
    /\ UNCHANGED <<capacity, usage, sectors_available, pcpu, res, mark_lock,
                   gc_pos, nops, ndone, nofail_called, last>>
    /\ UNCHANGED mark_vars

\* lines 1067-1068: down_read_trylock(gc_lock) fails with btree locks held
ReservationInterrupted(t) ==
    /\ rpc[t].pc = "recalculate"
    /\ "GC_LOCK_HELD" \notin rpc[t].flags
    /\ "BTREE_LOCKS_HELD" \in rpc[t].flags
    /\ gc_lock.w # {}
    /\ rpc' = [rpc EXCEPT ![t] = RpcIdle]
    /\ ndone' = ndone + 1
    /\ last' = [LastNone EXCEPT
                  !.op = "add", !.cpu = t, !.r = rpc[t].r, !.n = rpc[t].n,
                  !.flags = rpc[t].flags, !.ret = "EINTR", !.path = "trylock",
                  !.pre_pool = sectors_available,
                  !.pre_or = online_reserved_sum,
                  !.pre_res = res[rpc[t].r]]
    /\ UNCHANGED <<capacity, usage, sectors_available, pcpu, res, gc_lock,
                   mark_lock, gc_pos, nops, nofail_called>>
    /\ UNCHANGED mark_vars

\* line 1071: percpu_down_write(mark_lock)
ReservationMarkLock(t) ==
    /\ rpc[t].pc = "mark_lock"
    /\ mark_lock = LockFree
    /\ mark_lock' = [mark_lock EXCEPT !.w = {t}]
    /\ rpc' = [rpc EXCEPT ![t].pc = "locked"]
    /\ UNCHANGED <<capacity, usage, sectors_available, pcpu, res, gc_lock,
                   gc_pos, nops, ndone, nofail_called, last>>
    /\ UNCHANGED mark_vars

\* lines 1072-1094: recalculation, and the locks given back
ReservationRecalculate(t) ==
    /\ rpc[t].pc = "locked"
    /\ LET c == rpc[t]
           x == reservation_add_recalculate(capacity, usage[0], c.n, c.flags)
       IN  /\ pcpu' = x.pcpu
           /\ sectors_available' = x.pool
           /\ usage' = [usage EXCEPT ![0][t].online_reserved = @ + x.credit]
           /\ res' = [res EXCEPT ![c.r] = @ + x.credit]
           /\ last' = [LastNone EXCEPT
                         !.op = "add", !.cpu = t, !.r = c.r, !.n = c.n,
                         !.flags = c.flags, !.ret = x.ret, !.path = "recalculate",
                         !.recomputed = x.recomputed,
                         !.pre_pool = sectors_available,
                         !.pre_or = online_reserved_sum,
                         !.pre_res = res[c.r]]
    /\ mark_lock' = LockFree
    /\ gc_lock' = [w |-> gc_lock.w \ {t}, r |-> gc_lock.r \ {t}]
    /\ rpc' = [rpc EXCEPT ![t] = RpcIdle]
    /\ ndone' = ndone + 1
    /\ UNCHANGED <<capacity, gc_pos, nops, nofail_called>>
    /\ UNCHANGED mark_vars

\* __bch2_disk_reservation_put
ReservationPut(t, r) ==
    /\ nops < MaxOps
    /\ rpc[t].pc = "idle"
    /\ res_idle(r)
    /\ can_read_pin
    /\ LET x == __bch2_disk_reservation_put(usage[0], t, res[r])
       IN  /\ usage' = [usage EXCEPT ![0] = x.live]
           /\ res' = [res EXCEPT ![r] = x.sectors]
    /\ nops' = nops + 1
    /\ ndone' = ndone + 1
    /\ last' = [LastNone EXCEPT
                  !.op = "put", !.cpu = t, !.r = r, !.n = res[r],
                  !.pre_pool = sectors_available,
                  !.pre_or = online_reserved_sum,
                  !.pre_res = res[r]]
    /\ UNCHANGED <<capacity, sectors_available, pcpu, rpc, gc_lock, mark_lock,
                   gc_pos, nofail_called>>
    /\ UNCHANGED mark_vars

\* bch2_fs_usage_apply, called at commit under the read pin. A transaction
\* cannot take away more data or reservation than the filesystem holds.
UsageApply(t, r, ddata, dreserved, pos) ==
    /\ nops < MaxOps
    /\ rpc[t].pc = "idle"
    /\ r # NoRes => res_idle(r)
    /\ can_read_pin
    /\ live_usage.data + ddata >= 0
    /\ live_usage.reserved + dreserved >= 0
    /\ LET x == bch2_fs_usage_apply(transaction_delta(ddata, dreserved),
                    IF r = NoRes THEN 0 ELSE res[r], r # NoRes,
                    gc_visited(pos), usage[0], usage[1], t, sectors_available)
       IN  /\ sectors_available' = x.pool
           /\ usage' = [usage EXCEPT ![0] = x.live, ![1] = x.gcu]
           /\ res' = IF r = NoRes THEN res ELSE [res EXCEPT ![r] = x.sectors]
           /\ last' = [LastNone EXCEPT
                         !.op = "apply", !.cpu = t, !.r = r, !.n = x.added,
                         !.excess = x.excess, !.delta = x.delta,
                         !.ddata = ddata, !.dreserved = dreserved,
                         !.path = IF gc_visited(pos) THEN "visited" ELSE "live",
                         !.pre_pool = sectors_available,
                         !.pre_or = online_reserved_sum,
                         !.pre_res = IF r = NoRes THEN 0 ELSE res[r]]
    /\ nops' = nops + 1
    /\ ndone' = ndone + 1
    /\ UNCHANGED <<capacity, pcpu, rpc, gc_lock, mark_lock, gc_pos,
                   nofail_called>>
    /\ UNCHANGED mark_vars

NextRes ==
    \/ \E t \in CPUs, n \in SectorsReq, flags \in FlagSets :
          ReservationAdd(t, ResOf(t), n, flags)
    \/ \E t \in CPUs : ReservationGcLock(t)
    \/ \E t \in CPUs : ReservationInterrupted(t)
    \/ \E t \in CPUs : ReservationMarkLock(t)
    \/ \E t \in CPUs : ReservationRecalculate(t)
    \/ \E t \in CPUs : ReservationPut(t, ResOf(t))
    \/ \E t \in CPUs, d \in Deltas, pos \in Positions :
          \E r \in {ResOf(t), NoRes} : UsageApply(t, r, d[1], d[2], pos)

SpecRes == InitRes /\ [][NextRes]_vars

\* ------------------------------------------------------------------------
\* Reservations that are outstanding, released and consumed from any CPU
\* ------------------------------------------------------------------------

\* what the holder of reservation 2 asked for; 0 when it holds nothing
HeldReq == {0, 1}

\* The filesystem after CPU 0 reserved sectors for reservation 1 and CPU 1
\* for reservation 2, each served by bch2_disk_reservation_add without a
\* recalculation
InitHeld ==
    /\ capacity \in Capacities
    /\ \E h \in HiddenInit, n1 \in SectorsReq, n2 \in HeldReq :
         LET mounted == [gc \in {0, 1} |-> [cpu \in CPUs |->
                           IF cpu = 0 THEN [FsUsageZero EXCEPT !.hidden = h]
                           ELSE FsUsageZero]]
             pool == bch2_recalc_sectors_available(capacity, mounted[0]).avail
             f1 == reservation_add_fast(pool, 0, n1)
             f2 == IF n2 = 0
                   THEN [path |-> "none", pool |-> f1.pool, cache |-> 0]
                   ELSE reservation_add_fast(f1.pool, 0, n2)
         IN  /\ f1.path # "recalculate"
             /\ f2.path # "recalculate"
             /\ usage = [mounted EXCEPT ![0][0].online_reserved = @ + n1,
                                        ![0][1].online_reserved = @ + n2]
             /\ sectors_available = f2.pool
             /\ pcpu = [cpu \in CPUs |-> IF cpu = 0 THEN f1.cache ELSE f2.cache]
             /\ res = [r \in ResIds |-> IF r = ResOf(0) THEN n1 ELSE n2]
    /\ rpc = [t \in CPUs |-> RpcIdle]
    /\ gc_lock = LockFree
    /\ mark_lock = LockFree
    /\ gc_pos = 0
    /\ nops = 0
    /\ ndone = 0
    /\ nofail_called = FALSE
    /\ last = LastNone
    /\ buckets = [gc \in {0, 1} |-> [b \in Buckets |-> BucketMarkZero]]
    /\ dev_usage = [gc \in {0, 1} |-> [cpu \in CPUs |-> DevUsageZero]]
    /\ stripes = [gc \in {0, 1} |-> [i \in StripeIdxs |-> StripeZero]]
    /\ btree = {}
    /\ alloc_read_done = TRUE
    /\ trapped = FALSE
    /\ InitDevice

NextHeld ==
    \/ \E t \in CPUs, n \in SectorsReq, flags \in FlagSets :
          ReservationAdd(t, ResOf(t), n, flags)
    \/ \E t \in CPUs : ReservationGcLock(t)
    \/ \E t \in CPUs : ReservationInterrupted(t)
    \/ \E t \in CPUs : ReservationMarkLock(t)
    \/ \E t \in CPUs : ReservationRecalculate(t)
    \/ \E t \in CPUs, r \in ResIds : ReservationPut(t, r)
    \/ \E t \in CPUs, d \in Deltas, pos \in Positions :
          \E r \in ResIds \cup {NoRes} : UsageApply(t, r, d[1], d[2], pos)

SpecHeld == InitHeld /\ [][NextHeld]_vars

\* ------------------------------------------------------------------------
\* Claims about disk reservations
\* ------------------------------------------------------------------------

quiescent == \A t \in CPUs : rpc[t].pc = "idle"

\* what bch2_disk_reservations_verify adds up: used + avail + cached
reservations_total ==
    __bch2_fs_sectors_used(live_usage) + sectors_available + cache_sum

\* C1: in every state reached by reservation_add without NOFAIL,
\* reservation_put and apply, with no call in flight, hidden + data +
\* reserve_factor(reserved + online_reserved) + the pool + the per-CPU caches
\* is at most the capacity.
C1_KeyInvariant ==
    (~nofail_called /\ quiescent) => reservations_total <= capacity

\* a call returned in this step
returned == ndone' = ndone + 1

\* the thread whose recalculation, under mark_lock held for write, this step is
recalculates(t) == rpc[t].pc = "locked" /\ rpc'[t].pc = "idle"

\* what recalculation finds admissible in the state it starts from
recomputed_avail == avail_factor(bch2_fs_sectors_free(capacity, usage[0]))

\* C2 as stated: reservation_add(res, n) that succeeds, followed at once by
\* reservation_put(res), returns the pool and the summed online_reserved to
\* the values they had before the add.
C2_AddPutRestoresPool ==
    [][(returned /\ last.op = "add" /\ last.ret = "ok"
        /\ last'.op = "put" /\ last'.r = last.r)
       => (sectors_available' = last.pre_pool
           /\ online_reserved_sum' = last.pre_or)]_vars

\* C2 amended: reservation_add(res, n) followed at once by reservation_put(res)
\* leaves res.sectors = 0 and the summed online_reserved at its value before
\* the add less what res held before the add; the put does not touch the pool
\* or the caches, so the pool is back at its value before the add only when
\* the add was served from the per-CPU cache.
C2_AddPut ==
    [][(returned /\ last.op = "add" /\ last.ret = "ok"
        /\ last'.op = "put" /\ last'.r = last.r)
       => (/\ online_reserved_sum' = last.pre_or - last.pre_res
           /\ res'[last.r] = 0
           /\ sectors_available' = sectors_available
           /\ pcpu' = pcpu
           /\ (last.path = "cache" => sectors_available' = last.pre_pool))]_vars

\* an add that withdrew from the pool, then the put of the same reservation
C2_Witness ==
    /\ last.op = "put" /\ last.n > 0
    /\ cache_sum > 0
    /\ online_reserved_sum = 0

\* C3: reservation_add without NOFAIL that recalculates and finds less than n
\* admissible returns NoSpace, leaves the summed online_reserved and
\* res.sectors as they were, leaves the pool at the recomputed value and
\* every per-CPU cache at zero.
C3_NoSpace ==
    [][\A t \in CPUs :
        (recalculates(t) /\ "NOFAIL" \notin rpc[t].flags
         /\ recomputed_avail < rpc[t].n)
        => (/\ last'.op = "add" /\ last'.cpu = t /\ last'.ret = "NoSpace"
            /\ online_reserved_sum' = online_reserved_sum
            /\ res' = res
            /\ sectors_available' = recomputed_avail
            /\ \A cpu \in CPUs : pcpu'[cpu] = 0)]_vars

C3_Witness ==
    /\ last.op = "add" /\ last.ret = "NoSpace" /\ last.path = "recalculate"
    /\ last.recomputed < last.n

\* C4: reservation_add with NOFAIL never returns NoSpace; when it
\* recalculates it credits n to online_reserved and to res.sectors and returns
\* success, and the pool is left at max(0, recomputed - n).
C4_NoFail ==
    [][/\ (returned /\ last'.op = "add" /\ "NOFAIL" \in last'.flags)
            => last'.ret # "NoSpace"
       /\ \A t \in CPUs :
            (recalculates(t) /\ "NOFAIL" \in rpc[t].flags)
            => (/\ last'.op = "add" /\ last'.cpu = t /\ last'.ret = "ok"
                /\ online_reserved_sum' = online_reserved_sum + rpc[t].n
                /\ res'[rpc[t].r] = res[rpc[t].r] + rpc[t].n
                /\ sectors_available' = Max(0, recomputed_avail - rpc[t].n)
                /\ sectors_available' >= 0)]_vars

\* a NOFAIL add that was credited although less than n was admissible
C4_Witness ==
    /\ last.op = "add" /\ "NOFAIL" \in last.flags /\ last.ret = "ok"
    /\ last.path = "recalculate" /\ last.recomputed < last.n
    /\ sectors_available = 0

\* C5 as stated: a successful reservation_add that does not recalculate adds
\* n to res.sectors and to online_reserved and takes n from the pool and the
\* calling CPU's cache together; when the cache was short the pool loses
\* min(n + 1024, pool), so neither the pool nor the cache goes below zero.
C5_FastPath ==
    [][(returned /\ last'.op = "add" /\ last'.ret = "ok"
        /\ last'.path \in {"cache", "pool"})
       => LET t == last'.cpu
              n == last'.n
          IN  /\ res'[last'.r] = res[last'.r] + n
              /\ online_reserved_sum' = online_reserved_sum + n
              /\ sectors_available' + pcpu'[t] = (sectors_available + pcpu[t]) - n
              /\ (last'.path = "cache") = (n <= pcpu[t])
              /\ last'.path = "cache" => sectors_available' = sectors_available
              /\ last'.path = "pool" =>
                    sectors_available - sectors_available'
                        = Min(n + SECTORS_CACHE, sectors_available)
              /\ sectors_available' >= 0
              /\ pcpu'[t] >= 0]_vars

\* C6: bch2_fs_usage_apply with 0 < added <= res.sectors takes added from
\* res.sectors and from online_reserved, folds the delta into the live shard
\* of the calling CPU and hands back an all-zero delta; after any apply
\* res.sectors is not negative.
C6_Apply ==
    [][(returned /\ last'.op = "apply")
       => LET t == last'.cpu
              r == last'.r
              added == last'.ddata + last'.dreserved
              delta == transaction_delta(last'.ddata, last'.dreserved)
          IN  /\ \A q \in ResIds : res'[q] >= 0
              /\ (r # NoRes /\ 0 < added /\ added <= res[r])
                 => (/\ res'[r] = res[r] - added
                     /\ online_reserved_sum' = online_reserved_sum - added
                     /\ usage'[0] = [usage[0] EXCEPT ![t] = bch2_usage_add(@,
                            [delta EXCEPT !.online_reserved = 0 - added])]
                     /\ sectors_available' = sectors_available
                     /\ last'.delta = FsUsageZero)]_vars

\* an apply that consumed part of a reservation
C6_Witness ==
    /\ last.op = "apply" /\ last.r # NoRes /\ last.excess = 0
    /\ 0 < last.ddata + last.dreserved
    /\ last.pre_res - (last.ddata + last.dreserved) = res[last.r]
    /\ live_usage.data = last.ddata

\* C7 as stated: when added exceeds res.sectors (or there is no reservation)
\* the excess is repaid to the pool, which grows by it.
C7_ExcessRepaid ==
    [][(returned /\ last'.op = "apply" /\ last'.excess > 0)
       => sectors_available' = sectors_available + last'.excess]_vars

\* C7 amended: when added exceeds res.sectors (or there is no reservation),
\* the excess added - res.sectors is taken out of the pool, which shrinks by
\* it, and only what the reservation held is subtracted from res.sectors and
\* from online_reserved.
C7_ExcessCharged ==
    [][(returned /\ last'.op = "apply")
       => LET r == last'.r
              held == IF r = NoRes THEN 0 ELSE res[r]
              added == last'.ddata + last'.dreserved
          IN  added > held
              => (/\ last'.excess = added - held
                  /\ sectors_available' = sectors_available - (added - held)
                  /\ online_reserved_sum' = online_reserved_sum - held
                  /\ r # NoRes => res'[r] = 0
                  /\ r = NoRes => res' = res)]_vars

\* an apply that found more added than a non-empty reservation held
C7_Witness ==
    /\ last.op = "apply" /\ last.excess > 0
    /\ last.r # NoRes /\ last.pre_res > 0

\* ------------------------------------------------------------------------
\* Marking calls
\* ------------------------------------------------------------------------

\* k->size of the keys marked, in sectors
KeySize == 8

\* journal sequence numbers handed to the marking calls
JournalSeqs == {0, 5}

crc_none(size) ==
    [live_size |-> size, compressed_size |-> size,
     uncompressed_size |-> size, compression_type |-> 0]

\* a crc entry of an extent compressed to half its size
crc_compressed(size) ==
    [live_size |-> size, compressed_size |-> size \div 2,
     uncompressed_size |-> size, compression_type |-> 1]

Ptr(b, gen, cached, ec, crc) ==
    [offset |-> b * BucketSize, gen |-> gen, cached |-> cached, ec |-> ec,
     crc |-> crc]

KeyZero ==
    [type |-> "deleted", pos |-> 0, size |-> 0, ptrs |-> <<>>,
     nr_replicas |-> 0, idx |-> 0, sectors |-> 0, algorithm |-> 0,
     nr_blocks |-> 0, nr_redundant |-> 0]

KeyNames ==
    {"extent", "extent2", "extent_ec", "btree_ptr", "reservation", "alloc",
     "stripe"}

\* The keys the callers mark. Bucket 0 is an open bucket of gen 1 when the
\* marking starts, bucket 1 a free bucket of gen 0.
Key(name) ==
    CASE name = "extent" ->
            [KeyZero EXCEPT !.type = "extent", !.pos = 1, !.size = KeySize,
                !.ptrs = <<Ptr(0, 1, FALSE, <<>>, crc_none(KeySize))>>]
      [] name = "extent2" ->
            [KeyZero EXCEPT !.type = "extent", !.pos = 0, !.size = KeySize,
                !.ptrs = <<Ptr(0, 1, FALSE, <<>>, crc_none(KeySize)),
                           Ptr(1, 0, TRUE, <<>>, crc_none(KeySize))>>]
      [] name = "extent_ec" ->
            [KeyZero EXCEPT !.type = "extent", !.pos = 1, !.size = KeySize,
                !.ptrs = <<Ptr(0, 1, FALSE, <<[idx |-> 0, block |-> 0]>>,
                               crc_compressed(KeySize))>>]
      [] name = "btree_ptr" ->
            [KeyZero EXCEPT !.type = "btree_ptr", !.pos = 0,
                !.ptrs = <<Ptr(0, 1, FALSE, <<>>, crc_none(btree_node_size))>>]
      [] name = "reservation" ->
            [KeyZero EXCEPT !.type = "reservation", !.pos = 1,
                !.size = KeySize, !.nr_replicas = ReplicasMax + 1]
      [] name = "alloc" ->
            [KeyZero EXCEPT !.type = "alloc", !.pos = 0]
      [] name = "stripe" ->
            [KeyZero EXCEPT !.type = "stripe", !.pos = 0, !.idx = 0,
                !.sectors = BucketSize, !.algorithm = 0,
                !.nr_blocks = 2, !.nr_redundant = 1,
                !.ptrs = <<Ptr(0, 1, FALSE, <<>>, crc_none(0)),
                           Ptr(1, 0, FALSE, <<>>, crc_none(0))>>]

MarkFlagSets == {{}, {"GC"}}

\* the world gc as the marking call on CPU t finds it
World(gc, t) ==
    [buckets |-> buckets[gc], dev |-> dev_usage[gc][t], fs |-> usage[gc][t],
     stripes |-> stripes[gc], alloc_read_done |-> alloc_read_done,
     trap |-> FALSE, wake |-> 0, inconsistent |-> FALSE,
     old |-> BucketMarkZero]

\* what a marking call leaves of a world in the state
WorldState(w) ==
    [buckets |-> w.buckets, dev |-> w.dev, fs |-> w.fs, stripes |-> w.stripes]

LastMark ==
    [op |-> "none", cpu |-> 0, key |-> "none", inserting |-> FALSE,
     sectors |-> 0, pos |-> 0, visited |-> FALSE, flags |-> {},
     journal_seq |-> 0, b |-> 0, owned |-> FALSE, type |-> "none",
     ptr |-> Ptr(0, 0, FALSE, <<>>, crc_none(0)), gc |-> FALSE,
     ret |-> 0, wake |-> 0, inconsistent |-> FALSE,
     live_changed |-> FALSE, gc_changed |-> FALSE,
     old |-> BucketMarkZero, before |-> <<>>, ins |-> KeyZero]

\* an open bucket that the allocator invalidated g - 1 times before
OpenBucket(g) ==
    [BucketMarkZero EXCEPT !.gen = g, !.owned_by_allocator = TRUE]

\* The marking engine when marking starts: bucket 0 is an open bucket of gen
\* 1, accounted on CPU 0; gc has just started, so that its world holds the
\* gens only, and has visited position 0.
InitMark ==
    /\ capacity = NBuckets * BucketSize
    /\ usage = [gc \in {0, 1} |-> [cpu \in CPUs |-> FsUsageZero]]
    /\ sectors_available = 0
    /\ pcpu = [cpu \in CPUs |-> 0]
    /\ res = [r \in ResIds |-> 0]
    /\ rpc = [t \in CPUs |-> RpcIdle]
    /\ gc_lock = LockFree
    /\ mark_lock = LockFree
    /\ gc_pos = 0
    /\ nops = 0
    /\ ndone = 0
    /\ nofail_called = FALSE
    /\ last = LastMark
    /\ buckets = [gc \in {0, 1} |-> [b \in Buckets |->
                    IF b = 0
                    THEN IF gc = 0 THEN OpenBucket(1)
                         ELSE [BucketMarkZero EXCEPT !.gen = 1]
                    ELSE BucketMarkZero]]
    /\ dev_usage = [gc \in {0, 1} |-> [cpu \in CPUs |->
                    IF gc = 0 /\ cpu = 0
                    THEN [DevUsageZero EXCEPT !.buckets_alloc = 1,
                                              !.buckets_unavailable = 1]
                    ELSE DevUsageZero]]
    /\ stripes = [gc \in {0, 1} |-> [i \in StripeIdxs |-> StripeZero]]
    /\ btree = {}
    /\ alloc_read_done = TRUE
    /\ trapped = FALSE
    /\ InitDevice

\* what every marking call leaves alone
mark_frame ==
    UNCHANGED <<capacity, sectors_available, pcpu, res, rpc, gc_lock,
                mark_lock, gc_pos, nofail_called, alloc_read_done,
                ca, mem, rz, thr, journal, calls>>

\* the worlds a marking call on CPU t hands back, stored
publish(t, x) ==
    /\ buckets' = [gc \in {0, 1} |->
                     IF gc = 0 THEN x.live.buckets ELSE x.gc.buckets]
    /\ dev_usage' = [dev_usage EXCEPT ![0][t] = x.live.dev,
                                      ![1][t] = x.gc.dev]
    /\ usage' = [usage EXCEPT ![0][t] = x.live.fs, ![1][t] = x.gc.fs]
    /\ stripes' = [gc \in {0, 1} |->
                     IF gc = 0 THEN x.live.stripes ELSE x.gc.stripes]
    /\ trapped' = (x.live.trap \/ x.gc.trap)

\* the part of last' that every marking call fills in
outcome(t, x, l) ==
    [l EXCEPT !.cpu = t, !.ret = x.ret,
              !.wake = x.live.wake + x.gc.wake,
              !.inconsistent = x.live.inconsistent \/ x.gc.inconsistent,
              !.old = x.live.old,
              !.before = <<buckets, dev_usage, usage, stripes>>,
              !.live_changed = WorldState(x.live) # WorldState(World(0, t)),
              !.gc_changed = WorldState(x.gc) # WorldState(World(1, t))]

\* bch2_mark_key: bch2_mark_key_locked under the read pin. A key is inserted
\* when the btree does not hold it, removed when it does; gc marks, with
\* BCH_BUCKET_MARK_GC, the keys the btree holds.
MarkKey(t, name, inserting, journal_seq, flags) ==
    /\ nops < MaxOps
    /\ ~trapped
    /\ can_read_pin
    /\ IF "GC" \in flags THEN inserting /\ name \in btree
       ELSE inserting = (name \notin btree)
    /\ LET k == Key(name)
           sectors == IF inserting THEN k.size ELSE 0 - k.size
       IN  \E lw \in {World(0, t)}, gw \in {World(1, t)} :
           \E x \in {bch2_mark_key_locked(lw, gw, k, inserting, sectors,
                          gc_visited(k.pos), journal_seq, flags)} :
           /\ publish(t, x)
           /\ btree' = IF x.ret # 0 \/ x.live.trap \/ x.gc.trap
                          \/ "GC" \in flags
                       THEN btree
                       ELSE IF inserting THEN btree \cup {name}
                            ELSE btree \ {name}
           /\ last' = outcome(t, x,
                        [LastMark EXCEPT
                           !.op = "mark_key", !.key = name,
                           !.inserting = inserting, !.sectors = sectors,
                           !.pos = k.pos, !.visited = gc_visited(k.pos),
                           !.flags = flags, !.journal_seq = journal_seq])
    /\ nops' = nops + 1
    /\ ndone' = ndone + 1
    /\ mark_frame

\* bch2_mark_alloc_bucket
MarkAllocBucket(t, b, owned_by_allocator, pos, flags) ==
    /\ nops < MaxOps
    /\ ~trapped
    /\ can_read_pin
    /\ \E lw \in {World(0, t)}, gw \in {World(1, t)} :
       \E x \in {bch2_mark_alloc_bucket(lw, gw, b, owned_by_allocator,
                      gc_visited(pos), flags)} :
           /\ publish(t, x)
           /\ last' = outcome(t, x,
                        [LastMark EXCEPT
                           !.op = "mark_alloc_bucket", !.b = b,
                           !.owned = owned_by_allocator, !.pos = pos,
                           !.visited = gc_visited(pos), !.flags = flags])
    /\ nops' = nops + 1
    /\ ndone' = ndone + 1
    /\ UNCHANGED btree
    /\ mark_frame

\* bch2_mark_metadata_bucket
MarkMetadataBucket(t, b, type, sectors, pos, flags) ==
    /\ nops < MaxOps
    /\ ~trapped
    /\ can_read_pin
    /\ \E lw \in {World(0, t)}, gw \in {World(1, t)} :
       \E x \in {bch2_mark_metadata_bucket(lw, gw, b, type, sectors,
                      gc_visited(pos), flags)} :
           /\ publish(t, x)
           /\ last' = outcome(t, x,
                        [LastMark EXCEPT
                           !.op = "mark_metadata_bucket", !.b = b,
                           !.type = type, !.sectors = sectors, !.pos = pos,
                           !.visited = gc_visited(pos), !.flags = flags])
    /\ nops' = nops + 1
    /\ ndone' = ndone + 1
    /\ UNCHANGED btree
    /\ mark_frame

\* bch2_invalidate_bucket: the live world only
InvalidateBucket(t, b) ==
    /\ nops < MaxOps
    /\ ~trapped
    /\ can_read_pin
    /\ \E lw \in {World(0, t)}, gw \in {World(1, t)} :
       \E x \in {[live |-> __bch2_invalidate_bucket(lw, b), gc |-> gw,
                   ret |-> 0]} :
           /\ publish(t, x)
           /\ last' = outcome(t, x,
                        [LastMark EXCEPT !.op = "invalidate_bucket", !.b = b])
    /\ nops' = nops + 1
    /\ ndone' = ndone + 1
    /\ UNCHANGED btree
    /\ mark_frame

NextMark ==
    \/ \E t \in CPUs, name \in KeyNames, inserting \in BOOLEAN,
          journal_seq \in JournalSeqs, flags \in MarkFlagSets :
          MarkKey(t, name, inserting, journal_seq, flags)
    \/ \E t \in CPUs, b \in Buckets, owned \in BOOLEAN, pos \in Positions,
          flags \in MarkFlagSets :
          MarkAllocBucket(t, b, owned, pos, flags)
    \/ \E t \in CPUs, b \in Buckets, type \in {"sb", "journal"},
          pos \in Positions, flags \in MarkFlagSets :
          MarkMetadataBucket(t, b, type, KeySize, pos, flags)
    \/ \E t \in CPUs, b \in Buckets : InvalidateBucket(t, b)

SpecMark == InitMark /\ [][NextMark]_vars

\* ------------------------------------------------------------------------
\* bch2_mark_pointer over all pairs of gens
\* ------------------------------------------------------------------------

Gens == 0..255

\* Bucket 0 is an open bucket of any gen, and a pointer of any gen into it,
\* cached or not, waits in last.ptr to be marked; the alloc btree has been
\* read or not.
InitGen ==
    /\ capacity = NBuckets * BucketSize
    /\ usage = [gc \in {0, 1} |-> [cpu \in CPUs |-> FsUsageZero]]
    /\ sectors_available = 0
    /\ pcpu = [cpu \in CPUs |-> 0]
    /\ res = [r \in ResIds |-> 0]
    /\ rpc = [t \in CPUs |-> RpcIdle]
    /\ gc_lock = LockFree
    /\ mark_lock = LockFree
    /\ gc_pos = 0
    /\ nops = 0
    /\ ndone = 0
    /\ nofail_called = FALSE
    /\ \E g \in Gens :
         buckets = [gc \in {0, 1} |-> [b \in Buckets |->
                      IF b = 0
                      THEN IF gc = 0 THEN OpenBucket(g)
                           ELSE [BucketMarkZero EXCEPT !.gen = g]
                      ELSE BucketMarkZero]]
    /\ \E pg \in Gens, cached \in BOOLEAN :
         last = [LastMark EXCEPT
                   !.ptr = Ptr(0, pg, cached, <<>>, crc_none(KeySize))]
    /\ dev_usage = [gc \in {0, 1} |-> [cpu \in CPUs |->
                    IF gc = 0 /\ cpu = 0
                    THEN [DevUsageZero EXCEPT !.buckets_alloc = 1,
                                              !.buckets_unavailable = 1]
                    ELSE DevUsageZero]]
    /\ stripes = [gc \in {0, 1} |-> [i \in StripeIdxs |-> StripeZero]]
    /\ btree = {}
    /\ alloc_read_done \in BOOLEAN
    /\ trapped = FALSE
    /\ InitDevice

\* bch2_mark_pointer of the waiting pointer, in the live world (gc = FALSE)
\* or the gc world, on CPU 0
MarkPointer(gc) ==
    /\ last.op = "none"
    /\ ~trapped
    /\ can_read_pin
    /\ \E lw \in {World(0, 0)}, gw \in {World(1, 0)} :
       \E x \in {IF gc
                 THEN [live |-> lw, ret |-> 0,
                       gc |-> bch2_mark_pointer(gw, last.ptr, KeySize, "user",
                                                0, TRUE)]
                 ELSE [gc |-> gw, ret |-> 0,
                       live |-> bch2_mark_pointer(lw, last.ptr, KeySize,
                                                  "user", 0, FALSE)]} :
           /\ publish(0, x)
           /\ last' = outcome(0, x,
                        [LastMark EXCEPT !.op = "mark_pointer",
                                         !.ptr = last.ptr, !.gc = gc,
                                         !.sectors = KeySize])
    /\ nops' = nops + 1
    /\ ndone' = ndone + 1
    /\ UNCHANGED btree
    /\ mark_frame

NextGen == \E gc \in BOOLEAN : MarkPointer(gc)

SpecGen == InitGen /\ [][NextGen]_vars

\* ------------------------------------------------------------------------
\* Sector counts at the edges of their field
\* ------------------------------------------------------------------------

\* sector counts a bucket holds when the marking starts
WidthSectors == {0, 50, SECTORS_MAX - 8, SECTORS_MAX}

\* the signed sector deltas of the pointers marked
WidthDeltas == {0 - 64, 0 - 50, 8, 50}

\* the marks bucket 0 can hold: empty of type none, or holding sectors of a
\* type; of the first or the last gen; stamped with a journal sequence
\* number or not
WidthMarks ==
    {[BucketMarkZero EXCEPT !.owned_by_allocator = o, !.dirty_sectors = d,
                            !.cached_sectors = c,
                            !.data_type = IF d = 0 /\ c = 0 THEN "none" ELSE ty,
                            !.gen = g,
                            !.journal_seq_valid = (j # 0), !.journal_seq = j] :
        o \in BOOLEAN, d \in WidthSectors, c \in WidthSectors,
        ty \in {"user", "sb"}, g \in {0, 255}, j \in JournalSeqs}

\* Bucket 0 holds any of WidthMarks in both worlds, accounted on CPU 0 as
\* bch2_dev_usage_from_buckets accounts it.
InitWidth ==
    /\ capacity = NBuckets * BucketSize
    /\ sectors_available = 0
    /\ pcpu = [cpu \in CPUs |-> 0]
    /\ res = [r \in ResIds |-> 0]
    /\ rpc = [t \in CPUs |-> RpcIdle]
    /\ gc_lock = LockFree
    /\ mark_lock = LockFree
    /\ gc_pos = 0
    /\ nops = 0
    /\ ndone = 0
    /\ nofail_called = FALSE
    /\ last = LastMark
    /\ \E m \in WidthMarks :
       \E u \in {bch2_dev_usage_update(FsUsageZero, DevUsageZero,
                                        BucketMarkZero, m)} :
         /\ buckets = [gc \in {0, 1} |-> [b \in Buckets |->
                         IF b = 0 THEN m ELSE BucketMarkZero]]
         /\ dev_usage = [gc \in {0, 1} |-> [cpu \in CPUs |->
                           IF cpu = 0 THEN u.dev ELSE DevUsageZero]]
         /\ usage = [gc \in {0, 1} |-> [cpu \in CPUs |->
                       IF cpu = 0 THEN u.fs ELSE FsUsageZero]]
    /\ stripes = [gc \in {0, 1} |-> [i \in StripeIdxs |-> StripeZero]]
    /\ btree = {}
    /\ alloc_read_done = TRUE
    /\ trapped = FALSE
    /\ InitDevice

\* bch2_mark_pointer of a pointer of the bucket's gen into bucket 0, in the
\* live world (gc = FALSE) or the gc world, on CPU 0
WidthMarkPointer(gc, cached, sectors) ==
    /\ last.op = "none"
    /\ ~trapped
    /\ can_read_pin
    /\ \E lw \in {World(0, 0)}, gw \in {World(1, 0)},
          p \in {Ptr(0, buckets[0][0].gen, cached, <<>>,
                      crc_none(abs(sectors)))} :
       \E x \in {IF gc
                 THEN [live |-> lw, ret |-> 0,
                       gc |-> bch2_mark_pointer(gw, p, sectors, "user", 0,
                                                TRUE)]
                 ELSE [gc |-> gw, ret |-> 0,
                       live |-> bch2_mark_pointer(lw, p, sectors, "user", 0,
                                                  FALSE)]} :
           /\ publish(0, x)
           /\ last' = outcome(0, x,
                        [LastMark EXCEPT !.op = "mark_pointer", !.ptr = p,
                                         !.gc = gc, !.sectors = sectors])
    /\ nops' = nops + 1
    /\ ndone' = ndone + 1
    /\ UNCHANGED btree
    /\ mark_frame

\* __bch2_mark_metadata_bucket of bucket 0, in one world, on CPU 0
WidthMarkMetadata(gc, type, sectors) ==
    /\ last.op = "none"
    /\ ~trapped
    /\ can_read_pin
    /\ \E lw \in {World(0, 0)}, gw \in {World(1, 0)} :
       \E x \in {IF gc
                 THEN [live |-> lw, ret |-> 0,
                       gc |-> __bch2_mark_metadata_bucket(gw, 0, type,
                                                          sectors)]
                 ELSE [gc |-> gw, ret |-> 0,
                       live |-> __bch2_mark_metadata_bucket(lw, 0, type,
                                                            sectors)]} :
           /\ publish(0, x)
           /\ last' = outcome(0, x,
                        [LastMark EXCEPT !.op = "mark_metadata_bucket",
                                         !.type = type, !.gc = gc,
                                         !.sectors = sectors])
    /\ nops' = nops + 1
    /\ ndone' = ndone + 1
    /\ UNCHANGED btree
    /\ mark_frame

NextWidth ==
    \/ \E gc \in BOOLEAN, cached \in BOOLEAN, sectors \in WidthDeltas :
          WidthMarkPointer(gc, cached, sectors)
    \/ \E gc \in BOOLEAN, type \in {"sb", "journal"},
          sectors \in {s \in WidthDeltas : s > 0} :
          WidthMarkMetadata(gc, type, sectors)
    \/ (last.op = "none" /\ InvalidateBucket(0, 0))

SpecWidth == InitWidth /\ [][NextWidth]_vars

\* ------------------------------------------------------------------------
\* Device usage rebuilt from the bucket marks
\* ------------------------------------------------------------------------

\* the marks a bucket can hold when the device usage is rebuilt
TableMarks ==
    {m \in WidthMarks :
        /\ m.gen = 0 /\ ~m.journal_seq_valid
        /\ m.dirty_sectors \in {0, 50} /\ m.cached_sectors \in {0, 50}}

\* Any bucket table, and usage counters that are zero
InitTable ==
    /\ capacity = NBuckets * BucketSize
    /\ sectors_available = 0
    /\ pcpu = [cpu \in CPUs |-> 0]
    /\ res = [r \in ResIds |-> 0]
    /\ rpc = [t \in CPUs |-> RpcIdle]
    /\ gc_lock = LockFree
    /\ mark_lock = LockFree
    /\ gc_pos = 0
    /\ nops = 0
    /\ ndone = 0
    /\ nofail_called = FALSE
    /\ last = LastMark
    /\ \E tab \in [Buckets -> TableMarks] :
         buckets = [gc \in {0, 1} |-> tab]
    /\ dev_usage = [gc \in {0, 1} |-> [cpu \in CPUs |-> DevUsageZero]]
    /\ usage = [gc \in {0, 1} |-> [cpu \in CPUs |-> FsUsageZero]]
    /\ stripes = [gc \in {0, 1} |-> [i \in StripeIdxs |-> StripeZero]]
    /\ btree = {}
    /\ alloc_read_done = TRUE
    /\ trapped = FALSE
    /\ InitDevice

\* bch2_dev_usage_from_buckets on CPU t
DevUsageFromBuckets(t) ==
    /\ last.op = "none"
    /\ ~trapped
    /\ can_read_pin
    /\ \E lw \in {World(0, t)}, gw \in {World(1, t)} :
       \E x \in {[live |-> bch2_dev_usage_from_buckets(lw), gc |-> gw,
                   ret |-> 0]} :
           /\ publish(t, x)
           /\ last' = outcome(t, x,
                        [LastMark EXCEPT !.op = "dev_usage_from_buckets"])
    /\ nops' = nops + 1
    /\ ndone' = ndone + 1
    /\ UNCHANGED btree
    /\ mark_frame

NextTable == \E t \in CPUs : DevUsageFromBuckets(t)

SpecTable == InitTable /\ [][NextTable]_vars

\* ------------------------------------------------------------------------
\* bch2_mark_update on a node of extents
\* ------------------------------------------------------------------------

\* b->key.k.p.offset: the offset the node ends at
NodeEnd == 16

\* the extent of the sectors start..end-1, with one dirty pointer
Extent(start, end, b, gen, crc) ==
    [KeyZero EXCEPT !.type = "extent", !.pos = end, !.size = end - start,
                    !.ptrs = <<Ptr(b, gen, FALSE, <<>>, crc)>>]

\* a crc entry of an extent compressed into one sector
crc_one_sector(size) ==
    [live_size |-> size, compressed_size |-> 1, uncompressed_size |-> size,
     compression_type |-> 1]

\* the extents inserted, as <<start, end>>: over all of the first extent of
\* the node, over both, over the back of the first and the front of the
\* second, in the middle of the first, over the front of the first, in the
\* middle of the second, over the back of the second and past the end of the
\* node, and before both
Inserts ==
    {<<4, 12>>, <<0, 16>>, <<8, 14>>, <<6, 10>>, <<0, 8>>, <<13, 15>>,
     <<14, 20>>, <<0, 4>>}

\* The node holds the extents 4..11, compressed or not, and 12..15, both in
\* bucket 0, which holds nothing else or is full; bucket 1 is an open bucket
\* of gen 1; gc has marked what the live world has; the transaction holds a
\* reservation of a bucket's worth of sectors.
InitUpdate ==
    /\ capacity = NBuckets * BucketSize
    /\ sectors_available = 0
    /\ pcpu = [cpu \in CPUs |-> 0]
    /\ res = [r \in ResIds |-> IF r = 1 THEN BucketSize ELSE 0]
    /\ rpc = [t \in CPUs |-> RpcIdle]
    /\ gc_lock = LockFree
    /\ mark_lock = LockFree
    /\ gc_pos = 0
    /\ nops = 0
    /\ ndone = 0
    /\ nofail_called = FALSE
    /\ last = LastMark
    /\ \E crc \in {crc_none(8), crc_one_sector(8)}, full \in BOOLEAN :
       \E held \in {IF full THEN BucketSize
                     ELSE __ptr_disk_sectors([crc |-> crc], 8) + 4} :
       \E tab \in {[b \in Buckets |->
                      IF b = 0
                      THEN [BucketMarkZero EXCEPT !.data_type = "user",
                                                  !.dirty_sectors = held]
                      ELSE IF b = 1 THEN OpenBucket(1)
                      ELSE BucketMarkZero]} :
       \E w \in {bch2_dev_usage_from_buckets(
                    [buckets |-> tab, dev |-> DevUsageZero,
                     fs |-> FsUsageZero, wake |-> 0,
                     inconsistent |-> FALSE])} :
         /\ btree = <<Extent(4, 12, 0, 0, crc),
                      Extent(12, 16, 0, 0, crc_none(4))>>
         /\ buckets = [gc \in {0, 1} |-> tab]
         /\ dev_usage = [gc \in {0, 1} |-> [cpu \in CPUs |->
                IF cpu = 0
                THEN [w.dev EXCEPT !.buckets_alloc = 1,
                                   !.buckets_unavailable = @ + 1]
                ELSE DevUsageZero]]
         /\ usage = [gc \in {0, 1} |-> [cpu \in CPUs |->
                IF cpu = 0
                THEN [w.fs EXCEPT !.data = held,
                                  !.replicas[1].data["user"] = held,
                                  !.online_reserved = BucketSize]
                ELSE FsUsageZero]]
    /\ stripes = [gc \in {0, 1} |-> [i \in StripeIdxs |-> StripeZero]]
    /\ alloc_read_done = TRUE
    /\ trapped = FALSE
    /\ InitDevice

\* bch2_mark_update on CPU t, for the insertion of the extent io into the
\* node at the gc position pos, with the reservation r of the transaction
MarkUpdate(t, io, r, pos, journal_seq, replay) ==
    /\ last.op = "none"
    /\ ~trapped
    /\ can_read_pin
    /\ \E lw \in {[World(0, t) EXCEPT !.fs = FsUsageZero]},
          gw \in {World(1, t)},
          insert \in {Extent(io[1], io[2], 1, buckets[0][1].gen,
                             crc_none(io[2] - io[1]))} :
       \E x \in {bch2_mark_update(lw, gw, btree, NodeEnd, insert,
                                   gc_visited(pos), journal_seq, replay)} :
       \E y \in {bch2_fs_usage_apply(x.live.fs,
                        IF r = NoRes THEN 0 ELSE res[r], r # NoRes,
                        gc_visited(pos), usage[0],
                        [usage[1] EXCEPT ![t] = x.gc.fs], t,
                        sectors_available)} :
           /\ buckets' = [gc \in {0, 1} |->
                            IF gc = 0 THEN x.live.buckets ELSE x.gc.buckets]
           /\ dev_usage' = [dev_usage EXCEPT ![0][t] = x.live.dev,
                                             ![1][t] = x.gc.dev]
           /\ stripes' = [gc \in {0, 1} |->
                            IF gc = 0 THEN x.live.stripes ELSE x.gc.stripes]
           /\ trapped' = (x.live.trap \/ x.gc.trap)
           /\ IF x.live.trap \/ x.gc.trap
              THEN UNCHANGED <<usage, res, sectors_available>>
              ELSE /\ usage' = [usage EXCEPT ![0] = y.live, ![1] = y.gcu]
                   /\ res' = IF r = NoRes THEN res
                             ELSE [res EXCEPT ![r] = y.sectors]
                   /\ sectors_available' = y.pool
           /\ last' = outcome(t, x,
                        [LastMark EXCEPT
                           !.op = "mark_update", !.ins = insert, !.pos = pos,
                           !.visited = gc_visited(pos),
                           !.journal_seq = journal_seq,
                           !.inserting = ~replay])
    /\ nops' = nops + 1
    /\ ndone' = ndone + 1
    /\ UNCHANGED <<capacity, pcpu, rpc, gc_lock, mark_lock, gc_pos,
                   nofail_called, alloc_read_done, btree, ca, mem, rz, thr,
                   journal, calls>>

NextUpdate ==
    \E t \in CPUs, io \in Inserts, r \in {NoRes, 1}, pos \in Positions,
       journal_seq \in JournalSeqs, replay \in BOOLEAN :
        MarkUpdate(t, io, r, pos, journal_seq, replay)

SpecUpdate == InitUpdate /\ [][NextUpdate]_vars

\* ------------------------------------------------------------------------
\* bch2_dev_buckets_resize while marking calls run
\* ------------------------------------------------------------------------

\* the numbers of buckets a resize is asked for
ResizeTo == {1, 3}

\* ENOMEM of errno.h
ENOMEM == 12

\* percpu_down_write, down_write: nobody else holds the lock
can_write_lock(l) == l.w = {} /\ l.r = {}

\* what the device's pointers lead to: ca->buckets[0], ca->oldest_gens,
\* ca->buckets_nouse, ca->buckets_written
bucket_array ==
    [nbuckets |-> mem[ca.buckets].nbuckets,
     b |-> mem[ca.buckets].b,
     oldest_gens |-> mem[ca.oldest_gens].oldest_gens,
     buckets_nouse |-> mem[ca.buckets_nouse].buckets_nouse,
     buckets_written |-> mem[ca.buckets_written].buckets_written]

\* the bits of a bitset that lie in its first n longs
first_longs(bits, n) == {i \in bits : i < n * BITS_PER_LONG}

\* memcpy's that stop one bucket short of the common prefix
resize_copy_short(new, old) ==
    LET n == Min(new.nbuckets, old.nbuckets) - 1
    IN  [new EXCEPT
           !.b = [i \in 0..(new.nbuckets - 1) |->
                    IF i < n THEN old.b[i] ELSE @[i]],
           !.oldest_gens = [i \in 0..(new.nbuckets - 1) |->
                              IF i < n THEN old.oldest_gens[i] ELSE @[i]],
           !.buckets_nouse = first_longs(old.buckets_nouse, 0),
           !.buckets_written = first_longs(old.buckets_written, 0)]

\* The memcpy's of a resize: the first n = min(new, old) buckets and oldest
\* gens of the old table, and the longs of the old bitsets that hold the
\* first n bits, over the zeroed new ones
resize_copy(new, old) ==
    LET n == Min(new.nbuckets, old.nbuckets)
    IN  [new EXCEPT
           !.b = [i \in 0..(new.nbuckets - 1) |->
                    IF i < n THEN old.b[i] ELSE @[i]],
           !.oldest_gens = [i \in 0..(new.nbuckets - 1) |->
                              IF i < n THEN old.oldest_gens[i] ELSE @[i]],
           !.buckets_nouse =
               first_longs(old.buckets_nouse, BITS_TO_LONGS(n))
               \cup (@ \ first_longs(@, BITS_TO_LONGS(n))),
           !.buckets_written =
               first_longs(old.buckets_written, BITS_TO_LONGS(n))
               \cup (@ \ first_longs(@, BITS_TO_LONGS(n)))]

\* The device online: bucket 0 holds user data, the others are open buckets;
\* the oldest gens and the bitsets hold something to copy. ca->buckets[1],
\* the table of gc, is the variable buckets and is not resized.
InitResize ==
    /\ capacity = NBuckets * BucketSize
    /\ sectors_available = 0
    /\ pcpu = [cpu \in CPUs |-> 0]
    /\ res = [r \in ResIds |-> 0]
    /\ rpc = [t \in CPUs |-> RpcIdle]
    /\ gc_lock = LockFree
    /\ mark_lock = LockFree
    /\ gc_pos = 0
    /\ nops = 0
    /\ ndone = 0
    /\ nofail_called = FALSE
    /\ last = LastMark
    /\ \E tab \in {[b \in Buckets |->
                      IF b = 0
                      THEN [BucketMarkZero EXCEPT !.data_type = "user",
                                                  !.dirty_sectors = 4]
                      ELSE OpenBucket(b)]} :
       \E w \in {bch2_dev_usage_from_buckets(
                    [buckets |-> tab, dev |-> DevUsageZero,
                     fs |-> FsUsageZero, wake |-> 0,
                     inconsistent |-> FALSE])} :
       \E og \in {1}, nouse \in {{0}, {NBuckets - 1}} :
         /\ buckets = [gc \in {0, 1} |-> tab]
         /\ dev_usage = [gc \in {0, 1} |-> [cpu \in CPUs |->
                IF cpu = 0
                THEN [w.dev EXCEPT !.buckets_alloc = NBuckets - 1,
                                   !.buckets_unavailable = @ + NBuckets - 1]
                ELSE DevUsageZero]]
         /\ usage = [gc \in {0, 1} |-> [cpu \in CPUs |->
                IF cpu = 0
                THEN [w.fs EXCEPT !.data = 4,
                                  !.replicas[1].data["user"] = 4]
                ELSE FsUsageZero]]
         /\ mem = [a \in Addrs |->
                IF a = 0
                THEN [Allocation(NBuckets) EXCEPT
                        !.b = tab,
                        !.oldest_gens = [i \in Buckets |-> og + i],
                        !.buckets_nouse = nouse,
                        !.buckets_written = Buckets]
                ELSE Unallocated]
    /\ stripes = [gc \in {0, 1} |-> [i \in StripeIdxs |-> StripeZero]]
    /\ btree = {}
    /\ alloc_read_done = TRUE
    /\ trapped = FALSE
    /\ ca = [buckets |-> 0, oldest_gens |-> 0, buckets_nouse |-> 0,
             buckets_written |-> 0, bucket_lock |-> LockFree]
    /\ rz = ResizeIdle
    /\ thr = [t \in CPUs |-> ThreadIdle]
    /\ journal = JournalZero
    /\ calls = [t \in Threads |-> CallIdle]

\* what neither the resize nor the calls under it touch
resize_frame ==
    UNCHANGED <<capacity, sectors_available, pcpu, res, rpc, gc_pos,
                nofail_called, last, buckets, stripes, btree,
                alloc_read_done, journal, calls>>

\* what a step of bch2_dev_buckets_resize leaves alone besides
resizer_frame ==
    /\ resize_frame
    /\ UNCHANGED <<usage, dev_usage, nops, ndone, trapped, thr>>

\* what a step of a call on some CPU leaves alone besides
thread_frame ==
    /\ resize_frame
    /\ UNCHANGED <<gc_lock, ca, rz>>

\* bch2_dev_buckets_resize up to bch2_copygc_stop: the allocations, which
\* all succeed, at the next address
ResizeAlloc(nbuckets) ==
    /\ ~trapped
    /\ rz.pc = "idle"
    /\ rz.calls < MaxResizes
    /\ \E a \in {rz.calls + 1} :
         /\ mem' = [mem EXCEPT ![a] = Allocation(nbuckets)]
         /\ rz' = [rz EXCEPT !.pc = "gc_lock", !.nbuckets = nbuckets,
                             !.buckets = a, !.old_buckets = NoTable,
                             !.oldest_gens = a, !.buckets_nouse = a,
                             !.buckets_written = a, !.ret = 0 - ENOMEM]
    /\ UNCHANGED <<gc_lock, mark_lock, ca>>
    /\ resizer_frame

\* the allocations of bch2_dev_buckets_resize, in their order: the
\* bucket_array, the oldest gens, the two bitsets, then the fifos and heaps
ResizeAllocations ==
    <<"buckets", "oldest_gens", "buckets_nouse", "buckets_written", "free">>

\* bch2_dev_buckets_resize when the allocation failed fails, from its call to
\* its return through err: no lock is taken and the device is not touched.
\* The three arrays are freed. When the bucket_array was allocated, it is not
\* freed, and call_rcu is handed &old_buckets->rcu of the old_buckets that is
\* still NULL: the call either faults there or returns.
ResizeAllocFails(nbuckets, failed) ==
    /\ ~trapped
    /\ rz.pc = "idle"
    /\ rz.calls < MaxResizes
    /\ \E a \in {rz.calls + 1}, faults \in BOOLEAN :
         /\ mem' = [mem EXCEPT ![a] =
                      IF failed = "buckets" THEN Unallocated
                      ELSE [Allocation(nbuckets) EXCEPT !.arrays = "free"]]
         /\ trapped' = (failed # "buckets" /\ faults)
    /\ rz' = [ResizeIdle EXCEPT !.calls = rz.calls + 1, !.ret = 0 - ENOMEM]
    /\ UNCHANGED <<gc_lock, mark_lock, ca>>
    /\ resize_frame
    /\ UNCHANGED <<usage, dev_usage, nops, ndone, thr>>

\* down_write(&c->gc_lock)
ResizeLockGc ==
    /\ rz.pc = "gc_lock"
    /\ can_write_lock(gc_lock)
    /\ gc_lock' = [gc_lock EXCEPT !.w = {ResizeThread}]
    /\ rz' = [rz EXCEPT !.pc = "bucket_lock"]
    /\ UNCHANGED <<mark_lock, ca, mem>>
    /\ resizer_frame

\* down_write(&ca->bucket_lock)
ResizeLockBucket ==
    /\ rz.pc = "bucket_lock"
    /\ can_write_lock(ca.bucket_lock)
    /\ ca' = [ca EXCEPT !.bucket_lock.w = {ResizeThread}]
    /\ rz' = [rz EXCEPT !.pc = "mark_lock"]
    /\ UNCHANGED <<gc_lock, mark_lock, mem>>
    /\ resizer_frame

\* percpu_down_write(&c->mark_lock)
ResizeLockMark ==
    /\ rz.pc = "mark_lock"
    /\ can_write_lock(mark_lock)
    /\ mark_lock' = [mark_lock EXCEPT !.w = {ResizeThread}]
    /\ rz' = [rz EXCEPT !.pc = "copy"]
    /\ UNCHANGED <<gc_lock, ca, mem>>
    /\ resizer_frame

\* old_buckets = bucket_array(ca) and the four memcpy's
ResizeCopy ==
    /\ rz.pc = "copy"
    /\ mem' = [mem EXCEPT ![rz.buckets] = resize_copy(@, bucket_array)]
    /\ rz' = [rz EXCEPT !.pc = "publish", !.old_buckets = ca.buckets]
    /\ UNCHANGED <<gc_lock, mark_lock, ca>>
    /\ resizer_frame

\* rcu_assign_pointer(ca->buckets[0], buckets); buckets = old_buckets
ResizePublish ==
    /\ rz.pc = "publish"
    /\ ca' = [ca EXCEPT !.buckets = rz.buckets]
    /\ rz' = [rz EXCEPT !.pc = "swap", !.buckets = rz.old_buckets]
    /\ UNCHANGED <<gc_lock, mark_lock, mem>>
    /\ resizer_frame

\* the swaps of ca->oldest_gens, ca->buckets_nouse, ca->buckets_written
ResizeSwap ==
    /\ rz.pc = "swap"
    /\ ca' = [ca EXCEPT !.oldest_gens = rz.oldest_gens,
                        !.buckets_nouse = rz.buckets_nouse,
                        !.buckets_written = rz.buckets_written]
    /\ rz' = [rz EXCEPT !.pc = "mark_unlock",
                        !.oldest_gens = ca.oldest_gens,
                        !.buckets_nouse = ca.buckets_nouse,
                        !.buckets_written = ca.buckets_written]
    /\ UNCHANGED <<gc_lock, mark_lock, mem>>
    /\ resizer_frame

\* percpu_up_write(&c->mark_lock)
ResizeUnlockMark ==
    /\ rz.pc = "mark_unlock"
    /\ mark_lock' = [mark_lock EXCEPT !.w = {}]
    /\ rz' = [rz EXCEPT !.pc = "bucket_unlock"]
    /\ UNCHANGED <<gc_lock, ca, mem>>
    /\ resizer_frame

\* the hand-over of the free lists and heaps, which hold no marks, and
\* up_write(&ca->bucket_lock)
ResizeUnlockBucket ==
    /\ rz.pc = "bucket_unlock"
    /\ ca' = [ca EXCEPT !.bucket_lock.w = {}]
    /\ rz' = [rz EXCEPT !.pc = "gc_unlock"]
    /\ UNCHANGED <<gc_lock, mark_lock, mem>>
    /\ resizer_frame

\* up_write(&c->gc_lock)
ResizeUnlockGc ==
    /\ rz.pc = "gc_unlock"
    /\ gc_lock' = [gc_lock EXCEPT !.w = {}]
    /\ rz' = [rz EXCEPT !.pc = "free"]
    /\ UNCHANGED <<mark_lock, ca, mem>>
    /\ resizer_frame

\* ret = 0 and the way out: the old arrays are freed, the old bucket_array
\* is handed to call_rcu
ResizeFree ==
    /\ rz.pc = "free"
    /\ mem' = [mem EXCEPT ![rz.oldest_gens].arrays = "free",
                          ![rz.old_buckets].table = "rcu"]
    /\ rz' = [ResizeIdle EXCEPT !.calls = rz.calls + 1, !.ret = 0]
    /\ UNCHANGED <<gc_lock, mark_lock, ca>>
    /\ resizer_frame

\* buckets_free_rcu, once every CPU has left the section it was in
BucketsFreeRcu(a) ==
    /\ mem[a].table = "rcu"
    /\ mark_lock.r = {}
    /\ mem' = [mem EXCEPT ![a].table = "free"]
    /\ UNCHANGED <<gc_lock, mark_lock, ca, rz>>
    /\ resizer_frame

\* the extent of one sector that a call marks: one pointer into bucket b
ResizeKey(b, gen, cached) ==
    [KeyZero EXCEPT !.type = "extent", !.pos = 1, !.size = 1,
                    !.ptrs = <<Ptr(b, gen, cached, <<>>, crc_none(1))>>]

\* bch2_mark_key on CPU t: percpu_down_read_preempt_disable
MarkKeyLock(t, cached) ==
    /\ ~trapped
    /\ nops < MaxOps
    /\ thr[t].pc = "idle"
    /\ can_read_pin
    /\ mark_lock' = [mark_lock EXCEPT !.r = @ \cup {t}]
    /\ thr' = [thr EXCEPT ![t] = [ThreadIdle EXCEPT !.pc = "mark_bucket",
                                                    !.cached = cached]]
    /\ nops' = nops + 1
    /\ UNCHANGED <<usage, dev_usage, ndone, trapped, mem>>
    /\ thread_frame

\* bch2_mark_pointer: g = __bucket(ca, b, gc), for a pointer into a bucket
\* that the device has
MarkKeyBucket(t, b) ==
    /\ thr[t].pc = "mark_bucket"
    /\ b < mem[ca.buckets].nbuckets
    /\ thr' = [thr EXCEPT ![t].pc = "mark_read", ![t].buckets = ca.buckets,
                          ![t].b = b]
    /\ UNCHANGED <<usage, dev_usage, nops, ndone, trapped, mark_lock, mem>>
    /\ thread_frame

\* v = atomic64_read(&g->_mark.v)
MarkKeyRead(t) ==
    /\ thr[t].pc = "mark_read"
    /\ thr' = [thr EXCEPT ![t].pc = "mark_cmpxchg",
                          ![t].v = mem[thr[t].buckets].b[thr[t].b]]
    /\ UNCHANGED <<usage, dev_usage, nops, ndone, trapped, mark_lock, mem>>
    /\ thread_frame

\* One round of the cmpxchg loop of bch2_mark_pointer, for a pointer of the
\* gen that was read: when the mark is still v, the new mark is stored and
\* the call accounts it and runs to its end; else v is the mark found
MarkKeyCmpxchg(t) ==
    /\ thr[t].pc = "mark_cmpxchg"
    /\ \E f \in {thr[t]} :
       \E lw \in {[World(0, t) EXCEPT !.buckets = [i \in {f.b} |-> f.v]]} :
       \E x \in {bch2_mark_key_locked(lw, World(1, t),
                    ResizeKey(f.b, f.v.gen, f.cached), TRUE, 1, FALSE, 0,
                    {})} :
         IF mem[f.buckets].b[f.b] = f.v
         THEN /\ mem' = [mem EXCEPT ![f.buckets].b[f.b] = x.live.buckets[f.b]]
              /\ dev_usage' = [dev_usage EXCEPT ![0][t] = x.live.dev]
              /\ usage' = [usage EXCEPT ![0][t] = x.live.fs]
              /\ trapped' = x.live.trap
              /\ thr' = [thr EXCEPT ![t].pc = "mark_unlock"]
         ELSE /\ thr' = [thr EXCEPT ![t].v = mem[f.buckets].b[f.b]]
              /\ UNCHANGED <<mem, dev_usage, usage, trapped>>
    /\ UNCHANGED <<nops, ndone, mark_lock>>
    /\ thread_frame

\* percpu_up_read_preempt_enable, and the return
MarkKeyUnlock(t) ==
    /\ ~trapped
    /\ thr[t].pc = "mark_unlock"
    /\ mark_lock' = [mark_lock EXCEPT !.r = @ \ {t}]
    /\ thr' = [thr EXCEPT ![t] = ThreadIdle]
    /\ ndone' = ndone + 1
    /\ UNCHANGED <<usage, dev_usage, nops, trapped, mem>>
    /\ thread_frame

\* bch2_dev_usage_from_buckets on CPU t: percpu_down_read_preempt_disable
UsageFromBucketsLock(t) ==
    /\ ~trapped
    /\ nops < MaxOps
    /\ thr[t].pc = "idle"
    /\ can_read_pin
    /\ mark_lock' = [mark_lock EXCEPT !.r = @ \cup {t}]
    /\ thr' = [thr EXCEPT ![t] = [ThreadIdle EXCEPT !.pc = "usage_array"]]
    /\ nops' = nops + 1
    /\ UNCHANGED <<usage, dev_usage, ndone, trapped, mem>>
    /\ thread_frame

\* buckets = bucket_array(ca)
UsageFromBucketsArray(t) ==
    /\ thr[t].pc = "usage_array"
    /\ thr' = [thr EXCEPT ![t].pc = "usage_visit", ![t].buckets = ca.buckets,
                          ![t].b = 0]
    /\ UNCHANGED <<usage, dev_usage, nops, ndone, trapped, mark_lock, mem>>
    /\ thread_frame

\* one round of for_each_bucket: a bucket with a data type is accounted as
\* a change from the zero mark
UsageFromBucketsVisit(t) ==
    /\ thr[t].pc = "usage_visit"
    /\ thr[t].b < mem[thr[t].buckets].nbuckets
    /\ \E m \in {mem[thr[t].buckets].b[thr[t].b]} :
       \E u \in {bch2_dev_usage_update(usage[0][t], dev_usage[0][t],
                                       BucketMarkZero, m)} :
         /\ thr' = [thr EXCEPT ![t].b = @ + 1, ![t].v = m]
         /\ IF m.data_type # "none"
            THEN /\ dev_usage' = [dev_usage EXCEPT ![0][t] = u.dev]
                 /\ usage' = [usage EXCEPT ![0][t] = u.fs]
            ELSE UNCHANGED <<dev_usage, usage>>
    /\ UNCHANGED <<nops, ndone, trapped, mark_lock, mem>>
    /\ thread_frame

\* the end of the loop and percpu_up_read_preempt_enable
UsageFromBucketsUnlock(t) ==
    /\ thr[t].pc = "usage_visit"
    /\ thr[t].b >= mem[thr[t].buckets].nbuckets
    /\ mark_lock' = [mark_lock EXCEPT !.r = @ \ {t}]
    /\ thr' = [thr EXCEPT ![t] = ThreadIdle]
    /\ ndone' = ndone + 1
    /\ UNCHANGED <<usage, dev_usage, nops, trapped, mem>>
    /\ thread_frame

NextResize ==
    \/ \E nbuckets \in ResizeTo : ResizeAlloc(nbuckets)
    \/ \E nbuckets \in ResizeTo, i \in DOMAIN ResizeAllocations :
         ResizeAllocFails(nbuckets, ResizeAllocations[i])
    \/ ResizeLockGc
    \/ ResizeLockBucket
    \/ ResizeLockMark
    \/ ResizeCopy
    \/ ResizePublish
    \/ ResizeSwap
    \/ ResizeUnlockMark
    \/ ResizeUnlockBucket
    \/ ResizeUnlockGc
    \/ ResizeFree
    \/ \E a \in Addrs : BucketsFreeRcu(a)
    \/ \E t \in CPUs, cached \in BOOLEAN : MarkKeyLock(t, cached)
    \/ \E t \in CPUs, b \in 0..Max(NBuckets, 3) - 1 : MarkKeyBucket(t, b)
    \/ \E t \in CPUs : MarkKeyRead(t)
    \/ \E t \in CPUs : MarkKeyCmpxchg(t)
    \/ \E t \in CPUs : MarkKeyUnlock(t)
    \/ \E t \in CPUs : UsageFromBucketsLock(t)
    \/ \E t \in CPUs : UsageFromBucketsArray(t)
    \/ \E t \in CPUs : UsageFromBucketsVisit(t)
    \/ \E t \in CPUs : UsageFromBucketsUnlock(t)

SpecResize == InitResize /\ [][NextResize]_vars

\* ------------------------------------------------------------------------
\* reserve_factor and avail_factor
\* ------------------------------------------------------------------------

\* the largest number of sectors the factors are applied to
FactorMax == 260

\* A filesystem at rest and a number of sectors last.n
InitFactor ==
    /\ capacity \in Capacities
    /\ sectors_available = 0
    /\ pcpu = [cpu \in CPUs |-> 0]
    /\ res = [r \in ResIds |-> 0]
    /\ rpc = [t \in CPUs |-> RpcIdle]
    /\ gc_lock = LockFree
    /\ mark_lock = LockFree
    /\ gc_pos = 0
    /\ nops = 0
    /\ ndone = 0
    /\ nofail_called = FALSE
    /\ \E r \in 0..FactorMax : last = [LastNone EXCEPT !.n = r]
    /\ buckets = [gc \in {0, 1} |-> [b \in Buckets |-> BucketMarkZero]]
    /\ dev_usage = [gc \in {0, 1} |-> [cpu \in CPUs |-> DevUsageZero]]
    /\ usage = [gc \in {0, 1} |-> [cpu \in CPUs |-> FsUsageZero]]
    /\ stripes = [gc \in {0, 1} |-> [i \in StripeIdxs |-> StripeZero]]
    /\ btree = {}
    /\ alloc_read_done = TRUE
    /\ trapped = FALSE
    /\ InitDevice

\* reserve_factor of last.n sectors, kept in last.pre_res
ReserveFactor ==
    /\ last.op = "none"
    /\ last' = [last EXCEPT !.op = "reserve_factor",
                            !.pre_res = reserve_factor(last.n)]
    /\ UNCHANGED <<capacity, usage, sectors_available, pcpu, res, rpc,
                   gc_lock, mark_lock, gc_pos, nops, ndone, nofail_called>>
    /\ UNCHANGED mark_vars

\* avail_factor of what reserve_factor gave, kept in last.recomputed
AvailFactor ==
    /\ last.op = "reserve_factor"
    /\ last' = [last EXCEPT !.op = "avail_factor",
                            !.recomputed = avail_factor(last.pre_res)]
    /\ UNCHANGED <<capacity, usage, sectors_available, pcpu, res, rpc,
                   gc_lock, mark_lock, gc_pos, nops, ndone, nofail_called>>
    /\ UNCHANGED mark_vars

NextFactor == ReserveFactor \/ AvailFactor

SpecFactor == InitFactor /\ [][NextFactor]_vars

\* ------------------------------------------------------------------------
\* Concurrent calls on one bucket mark, and bch2_bucket_seq_cleanup
\* ------------------------------------------------------------------------

\* the bits of a mark's journal_seq
BUCKET_JOURNAL_SEQ_BITS == 16

\* the journal sequence numbers the journal goes through, around the
\* distance at which bch2_bucket_seq_cleanup sweeps
RaceJournalSeqs ==
    {1, 2 ^ (BUCKET_JOURNAL_SEQ_BITS - 2),
     2 ^ (BUCKET_JOURNAL_SEQ_BITS - 2) + 1}

\* the buckets the concurrent calls mark, and the gen of their pointers
RaceBuckets == {0}
RaceGens == {1}

\* the pointers the concurrent calls of mark_pointer mark, the sectors they
\* add, and their flags
RacePointers ==
    {[cached |-> FALSE, sectors |-> KeySize, flags |-> {}],
     [cached |-> FALSE, sectors |-> 0 - KeySize, flags |-> {}],
     [cached |-> TRUE, sectors |-> KeySize, flags |-> {}],
     [cached |-> FALSE, sectors |-> KeySize, flags |-> {"NOATOMIC"}]}

\* bucket_needs_journal_commit: the mark's journal_seq is after the last
\* sequence number on disk, in the arithmetic of the field
bucket_needs_journal_commit(m, last_seq_ondisk) ==
    /\ m.journal_seq_valid
    /\ LET d == (m.journal_seq - last_seq_ondisk)
                    % (2 ^ BUCKET_JOURNAL_SEQ_BITS)
       IN  d >= 1 /\ d < 2 ^ (BUCKET_JOURNAL_SEQ_BITS - 1)

\* a sweep that clears journal_seq_valid of every mark that has it
seq_cleanup_clears_all(m, last_seq_ondisk) ==
    IF ~m.journal_seq_valid
    THEN [skip |-> TRUE, new |-> m]
    ELSE [skip |-> FALSE, new |-> [m EXCEPT !.journal_seq_valid = FALSE]]

\* the body of the bucket_cmpxchg of bch2_bucket_seq_cleanup on the mark m
\* it read: skip is its break, new the mark it hands to the cmpxchg
seq_cleanup_mark(m, last_seq_ondisk) ==
    IF ~m.journal_seq_valid \/ bucket_needs_journal_commit(m, last_seq_ondisk)
    THEN [skip |-> TRUE, new |-> m]
    ELSE [skip |-> FALSE, new |-> [m EXCEPT !.journal_seq_valid = FALSE]]

\* bch2_mark_metadata_bucket without a filesystem (c is NULL): bucket_cmpxchg
\* alone, no usage is updated
mark_metadata_bucket_no_fs(w, b, type, sectors) ==
    LET old == w.buckets[b]
        sum == checked_add(old.dirty_sectors, sectors)
        new == [old EXCEPT !.data_type = type, !.dirty_sectors = sum.v]
    IN  IF type \notin {"sb", "journal"} \/ sum.bug THEN Trap(w)
        ELSE [w EXCEPT !.buckets[b] = new]

\* what the call op makes of the world w, in which bucket b holds the mark
\* the call read
call_marks(op, w, b, gc) ==
    CASE op.name = "mark_pointer" ->
            bch2_mark_pointer(w, Ptr(b, op.gen, op.cached, <<>>,
                                     crc_none(KeySize)),
                              op.sectors, "user", op.journal_seq, gc = 1)
      [] op.name = "mark_alloc_bucket" ->
            __bch2_mark_alloc_bucket(w, b, op.owned_by_allocator, gc = 1)
      [] op.name = "mark_metadata_bucket" ->
            IF op.fs
            THEN __bch2_mark_metadata_bucket(w, b, op.type, op.sectors)
            ELSE mark_metadata_bucket_no_fs(w, b, op.type, op.sectors)
      [] op.name = "invalidate_bucket" -> __bch2_invalidate_bucket(w, b)
      [] OTHER -> w

\* the call leaves its loop before the cmpxchg: a stale pointer, or a BUG_ON
\* inside the loop; r is what call_marks made of the mark v
leaves_loop(op, r, b, v) ==
    op.name # "mark_alloc_bucket" /\ r.buckets[b] = v

\* The marking engine with a journal: bucket 0 holds one user extent,
\* bucket 1 is empty and was last touched by journal entry 1, which is
\* not on disk yet; the device usage of CPU 0 accounts for both.
InitRace ==
    /\ capacity = NBuckets * BucketSize
    /\ sectors_available = 0
    /\ pcpu = [cpu \in CPUs |-> 0]
    /\ res = [r \in ResIds |-> 0]
    /\ rpc = [t \in CPUs |-> RpcIdle]
    /\ gc_lock = LockFree
    /\ mark_lock = LockFree
    /\ gc_pos = 0
    /\ nops = 0
    /\ ndone = 0
    /\ nofail_called = FALSE
    /\ last = LastMark
    /\ \E sectors \in {KeySize} :
       \E tab \in {[b \in Buckets |->
                      IF b = 0
                      THEN [BucketMarkZero EXCEPT
                              !.gen = 1,
                              !.data_type = IF sectors = 0 THEN "none"
                                            ELSE "user",
                              !.dirty_sectors = sectors]
                      ELSE [BucketMarkZero EXCEPT !.journal_seq_valid = TRUE,
                                                  !.journal_seq = 1]]} :
       \E u \in {bch2_dev_usage_update(FsUsageZero, DevUsageZero,
                                       BucketMarkZero, tab[0])} :
         /\ buckets = [gc \in {0, 1} |-> tab]
         /\ dev_usage = [gc \in {0, 1} |-> [cpu \in CPUs |->
                IF cpu = 0 THEN u.dev ELSE DevUsageZero]]
         /\ usage = [gc \in {0, 1} |-> [cpu \in CPUs |->
                IF cpu = 0 THEN u.fs ELSE FsUsageZero]]
    /\ stripes = [gc \in {0, 1} |-> [i \in StripeIdxs |-> StripeZero]]
    /\ btree = {}
    /\ alloc_read_done = TRUE
    /\ trapped = FALSE
    /\ ca = [buckets |-> 0, oldest_gens |-> 0, buckets_nouse |-> 0,
             buckets_written |-> 0, bucket_lock |-> LockFree]
    /\ mem = [a \in Addrs |->
                IF a = 0 THEN Allocation(NBuckets) ELSE Unallocated]
    /\ rz = ResizeIdle
    /\ thr = [t \in CPUs |-> ThreadIdle]
    /\ journal = [seq |-> 1, last_seq_ondisk |-> 0,
                  last_bucket_seq_cleanup |-> 1]
    /\ calls = [t \in Threads |-> CallIdle]

\* what no step of a concurrent call or of the sweep changes
race_frame ==
    UNCHANGED <<capacity, sectors_available, pcpu, res, rpc, gc_lock, gc_pos,
                nofail_called, last, stripes, btree, alloc_read_done,
                mem, rz, thr>>

\* the journal opens an entry n sequence numbers on
JournalAdvance(n) ==
    /\ ~trapped
    /\ journal.seq + n \in RaceJournalSeqs
    /\ journal' = [journal EXCEPT !.seq = @ + n]
    /\ UNCHANGED <<usage, dev_usage, buckets, mark_lock, ca, nops, ndone,
                   trapped, calls>>
    /\ race_frame

\* the journal has written all its entries but the last n
JournalFlush(n) ==
    /\ ~trapped
    /\ journal.seq - n > journal.last_seq_ondisk
    /\ journal' = [journal EXCEPT !.last_seq_ondisk = journal.seq - n]
    /\ UNCHANGED <<usage, dev_usage, buckets, mark_lock, ca, nops, ndone,
                   trapped, calls>>
    /\ race_frame

\* a call that begins without the read pin
call_begins_unpinned(t, b, op) ==
    /\ ~trapped
    /\ nops < MaxOps
    /\ calls[t].pc = "idle"
    /\ calls' = [calls EXCEPT ![t] =
                    [CallIdle EXCEPT !.pc = "read", !.g = b, !.op = op]]
    /\ nops' = nops + 1
    /\ UNCHANGED <<usage, dev_usage, buckets, ca, ndone, trapped, journal,
                   mark_lock>>
    /\ race_frame

\* CPU t takes the read pin and begins the call op on bucket b
call_begins(t, b, op) ==
    /\ ~trapped
    /\ nops < MaxOps
    /\ calls[t].pc = "idle"
    /\ IF op.fs
       THEN /\ can_read_pin
            /\ mark_lock' = [mark_lock EXCEPT !.r = @ \cup {t}]
       ELSE UNCHANGED mark_lock
    /\ calls' = [calls EXCEPT ![t] =
                    [CallIdle EXCEPT !.pc = "read", !.g = b, !.op = op]]
    /\ nops' = nops + 1
    /\ UNCHANGED <<usage, dev_usage, buckets, ca, ndone, trapped, journal>>
    /\ race_frame

\* bch2_mark_key of an extent with one pointer into bucket b, up to
\* bch2_mark_pointer: percpu_down_read_preempt_disable
MarkPointerBegin(t, b, gen, cached, sectors, flags) ==
    call_begins(t, b, [CallNone EXCEPT
        !.name = "mark_pointer", !.gen = gen, !.cached = cached,
        !.sectors = sectors, !.journal_seq = journal.seq,
        !.flags = flags, !.pos = 1])

\* bch2_mark_alloc_bucket under its caller's read pin
MarkAllocBucketBegin(t, b, owned_by_allocator, pos) ==
    call_begins(t, b, [CallNone EXCEPT
        !.name = "mark_alloc_bucket",
        !.owned_by_allocator = owned_by_allocator, !.pos = pos])

\* bch2_mark_metadata_bucket under its caller's read pin, or without a
\* filesystem
MarkMetadataBucketBegin(t, b, type, sectors, fs) ==
    call_begins(t, b, [CallNone EXCEPT
        !.name = "mark_metadata_bucket", !.type = type, !.sectors = sectors,
        !.fs = fs, !.pos = 1])

\* bch2_invalidate_bucket under its caller's read pin
InvalidateBucketBegin(t, b) ==
    call_begins(t, b, [CallNone EXCEPT !.name = "invalidate_bucket",
                                       !.pos = 1])

\* the read of the mark before the loop
CallRead(t) ==
    /\ ~trapped
    /\ calls[t].pc = "read"
    /\ calls' = [calls EXCEPT ![t].pc = "cmpxchg",
                              ![t].v = buckets[calls[t].gc][calls[t].g]]
    /\ UNCHANGED <<usage, dev_usage, buckets, mark_lock, ca, nops, ndone,
                   trapped, journal>>
    /\ race_frame

\* One round of the loop and what follows it when the cmpxchg succeeds: the
\* new mark is computed from the mark read; the cmpxchg publishes it if the
\* bucket still holds the mark read, and hands back the mark it found if
\* not. With BCH_BUCKET_MARK_NOATOMIC the new mark is stored whatever the
\* bucket holds. The usage is updated from the mark read and the new mark.
CallCmpxchg(t) ==
    /\ ~trapped
    /\ calls[t].pc = "cmpxchg"
    /\ \E c \in {calls[t]} :
       \E r \in {call_marks(c.op,
                            [World(c.gc, t) EXCEPT
                                !.buckets = [i \in {c.g} |-> c.v]],
                            c.g, c.gc)} :
         IF leaves_loop(c.op, r, c.g, c.v)
         THEN /\ trapped' = r.trap
              /\ calls' = [calls EXCEPT ![t].pc = "unlock"]
              /\ UNCHANGED <<buckets, dev_usage, usage>>
         ELSE IF buckets[c.gc][c.g] = c.v \/ "NOATOMIC" \in c.op.flags
         THEN /\ buckets' = [buckets EXCEPT ![c.gc][c.g] = r.buckets[c.g]]
              /\ dev_usage' = [dev_usage EXCEPT ![c.gc][t] = r.dev]
              /\ usage' = [usage EXCEPT ![c.gc][t] = r.fs]
              /\ trapped' = r.trap
              /\ calls' = [calls EXCEPT ![t].pc =
                              IF c.gc = 0 /\ c.op.fs
                                 /\ c.op.name # "invalidate_bucket"
                              THEN "visited" ELSE "unlock"]
         ELSE /\ calls' = [calls EXCEPT ![t].v = buckets[c.gc][c.g]]
              /\ UNCHANGED <<buckets, dev_usage, usage, trapped>>
    /\ UNCHANGED <<mark_lock, ca, nops, ndone, journal>>
    /\ race_frame

\* gc_visited(c, pos) after the live mark: the gc mark is next if gc has
\* been there
CallVisited(t) ==
    /\ ~trapped
    /\ calls[t].pc = "visited"
    /\ calls' = [calls EXCEPT
                    ![t].pc = IF gc_visited(calls[t].op.pos) THEN "read"
                              ELSE "unlock",
                    ![t].gc = IF gc_visited(calls[t].op.pos) THEN 1 ELSE 0]
    /\ UNCHANGED <<usage, dev_usage, buckets, mark_lock, ca, nops, ndone,
                   trapped, journal>>
    /\ race_frame

\* the return, and percpu_up_read_preempt_enable
CallUnlock(t) ==
    /\ ~trapped
    /\ calls[t].pc = "unlock"
    /\ mark_lock' = [mark_lock EXCEPT !.r = @ \ {t}]
    /\ calls' = [calls EXCEPT ![t] = CallIdle]
    /\ ndone' = ndone + 1
    /\ UNCHANGED <<usage, dev_usage, buckets, ca, nops, trapped, journal>>
    /\ race_frame

\* bch2_bucket_seq_cleanup up to the loop over the devices: it returns
\* unless the journal is 1 << (BUCKET_JOURNAL_SEQ_BITS - 2) entries on
CleanupBegin ==
    /\ ~trapped
    /\ calls[CleanupThread].pc = "idle"
    /\ IF journal.seq - journal.last_bucket_seq_cleanup
            < 2 ^ (BUCKET_JOURNAL_SEQ_BITS - 2)
       THEN UNCHANGED <<journal, calls>>
       ELSE /\ journal' = [journal EXCEPT
                             !.last_bucket_seq_cleanup = journal.seq]
            /\ calls' = [calls EXCEPT ![CleanupThread] =
                  [CallIdle EXCEPT
                     !.pc = "lock", !.op.name = "bucket_seq_cleanup",
                     !.journal_seq = journal.seq,
                     !.last_seq_ondisk = journal.last_seq_ondisk
                                           % (2 ^ BUCKET_JOURNAL_SEQ_BITS)]]
    /\ UNCHANGED <<usage, dev_usage, buckets, mark_lock, ca, nops, ndone,
                   trapped>>
    /\ race_frame

\* down_read(&ca->bucket_lock), buckets = bucket_array(ca)
CleanupLock ==
    /\ ~trapped
    /\ calls[CleanupThread].pc = "lock"
    /\ ca.bucket_lock.w = {}
    /\ ca' = [ca EXCEPT !.bucket_lock.r = @ \cup {CleanupThread}]
    /\ calls' = [calls EXCEPT ![CleanupThread].pc = "read",
                              ![CleanupThread].g = 0]
    /\ UNCHANGED <<usage, dev_usage, buckets, mark_lock, nops, ndone,
                   trapped, journal>>
    /\ race_frame

\* for_each_bucket: the read of the mark of the next bucket
CleanupRead ==
    /\ ~trapped
    /\ calls[CleanupThread].pc = "read"
    /\ calls[CleanupThread].g < NBuckets
    /\ calls' = [calls EXCEPT
                    ![CleanupThread].pc = "cmpxchg",
                    ![CleanupThread].v = buckets[0][calls[CleanupThread].g]]
    /\ UNCHANGED <<usage, dev_usage, buckets, mark_lock, ca, nops, ndone,
                   trapped, journal>>
    /\ race_frame

\* one round of the bucket_cmpxchg: break, or the cmpxchg of the mark with
\* journal_seq_valid cleared, which fails if the bucket holds another mark
CleanupCmpxchg ==
    /\ ~trapped
    /\ calls[CleanupThread].pc = "cmpxchg"
    /\ \E c \in {calls[CleanupThread]} :
       \E x \in {seq_cleanup_mark(c.v, c.last_seq_ondisk)} :
         IF x.skip
         THEN /\ calls' = [calls EXCEPT ![CleanupThread].pc = "read",
                                        ![CleanupThread].g = @ + 1]
              /\ UNCHANGED buckets
         ELSE IF buckets[0][c.g] = c.v
         THEN /\ buckets' = [buckets EXCEPT ![0][c.g] = x.new]
              /\ calls' = [calls EXCEPT ![CleanupThread].pc = "read",
                                        ![CleanupThread].g = @ + 1]
         ELSE /\ calls' = [calls EXCEPT ![CleanupThread].v = buckets[0][c.g]]
              /\ UNCHANGED buckets
    /\ UNCHANGED <<usage, dev_usage, mark_lock, ca, nops, ndone, trapped,
                   journal>>
    /\ race_frame

\* the end of for_each_bucket, up_read(&ca->bucket_lock), and the return
CleanupUnlock ==
    /\ ~trapped
    /\ calls[CleanupThread].pc = "read"
    /\ calls[CleanupThread].g >= NBuckets
    /\ ca' = [ca EXCEPT !.bucket_lock.r = @ \ {CleanupThread}]
    /\ calls' = [calls EXCEPT ![CleanupThread] = CallIdle]
    /\ UNCHANGED <<usage, dev_usage, buckets, mark_lock, nops, ndone,
                   trapped, journal>>
    /\ race_frame

NextRace ==
    \/ \E n \in {1, 2 ^ (BUCKET_JOURNAL_SEQ_BITS - 2) - 1} : JournalAdvance(n)
    \/ \E n \in {0} : JournalFlush(n)
    \/ \E t \in CPUs, b \in RaceBuckets, gen \in RaceGens, p \in RacePointers :
          MarkPointerBegin(t, b, gen, p.cached, p.sectors, p.flags)
    \/ \E t \in CPUs, b \in RaceBuckets, owned \in BOOLEAN :
          MarkAllocBucketBegin(t, b, owned, 1)
    \/ \E t \in CPUs, b \in RaceBuckets, fs \in BOOLEAN :
          MarkMetadataBucketBegin(t, b, "sb", KeySize, fs)
    \/ \E t \in CPUs, b \in RaceBuckets : InvalidateBucketBegin(t, b)
    \/ \E t \in CPUs : CallRead(t)
    \/ \E t \in CPUs : CallCmpxchg(t)
    \/ \E t \in CPUs : CallVisited(t)
    \/ \E t \in CPUs : CallUnlock(t)
    \/ CleanupBegin
    \/ CleanupLock
    \/ CleanupRead
    \/ CleanupCmpxchg
    \/ CleanupUnlock

SpecRace == InitRace /\ [][NextRace]_vars

\* ------------------------------------------------------------------------
\* Marking calls and the start of gc
\* ------------------------------------------------------------------------

\* what no step of gc changes
gc_frame ==
    UNCHANGED <<capacity, sectors_available, pcpu, res, rpc, gc_lock,
                nofail_called, last, btree, alloc_read_done, ca, mem, rz,
                thr, journal, nops, ndone, trapped>>

\* gc is to start: it asks for the mark lock in write mode
GcStartBegin ==
    /\ ~trapped
    /\ calls[GcThread].pc = "idle"
    /\ calls' = [calls EXCEPT ![GcThread].pc = "lock",
                              ![GcThread].op.name = "gc_start"]
    /\ UNCHANGED <<usage, dev_usage, buckets, stripes, gc_pos, mark_lock>>
    /\ gc_frame

\* percpu_down_write(&c->mark_lock): no call holds the read pin
GcStartLock ==
    /\ ~trapped
    /\ calls[GcThread].pc = "lock"
    /\ can_write_lock(mark_lock)
    /\ mark_lock' = [mark_lock EXCEPT !.w = {GcThread}]
    /\ calls' = [calls EXCEPT ![GcThread].pc = "reset"]
    /\ UNCHANGED <<usage, dev_usage, buckets, stripes, gc_pos>>
    /\ gc_frame

\* the start of gc: the marks of gc's table keep the gens of the live ones
\* and nothing else, gc's usage shards and stripes are zeroed, and the cursor
\* is put at the first position
GcStartReset ==
    /\ ~trapped
    /\ calls[GcThread].pc = "reset"
    /\ buckets' = [buckets EXCEPT ![1] =
                     [b \in Buckets |->
                        [BucketMarkZero EXCEPT !.gen = buckets[0][b].gen]]]
    /\ usage' = [usage EXCEPT ![1] = [cpu \in CPUs |-> FsUsageZero]]
    /\ dev_usage' = [dev_usage EXCEPT ![1] = [cpu \in CPUs |-> DevUsageZero]]
    /\ stripes' = [stripes EXCEPT ![1] = [i \in StripeIdxs |-> StripeZero]]
    /\ gc_pos' = 0
    /\ calls' = [calls EXCEPT ![GcThread].pc = "unlock"]
    /\ UNCHANGED mark_lock
    /\ gc_frame

\* percpu_up_write(&c->mark_lock)
GcStartUnlock ==
    /\ ~trapped
    /\ calls[GcThread].pc = "unlock"
    /\ mark_lock' = [mark_lock EXCEPT !.w = {}]
    /\ calls' = [calls EXCEPT ![GcThread] = CallIdle]
    /\ UNCHANGED <<usage, dev_usage, buckets, stripes, gc_pos>>
    /\ gc_frame

\* gc's cursor moves on to the next position
GcAdvance ==
    /\ ~trapped
    /\ calls[GcThread].pc = "idle"
    /\ gc_pos + 1 \in Positions
    /\ gc_pos' = gc_pos + 1
    /\ UNCHANGED <<usage, dev_usage, buckets, stripes, mark_lock, calls>>
    /\ gc_frame

NextGc ==
    \/ \E t \in CPUs, b \in RaceBuckets, gen \in RaceGens, p \in RacePointers :
          MarkPointerBegin(t, b, gen, p.cached, p.sectors, p.flags)
    \/ \E t \in CPUs, b \in RaceBuckets, owned \in BOOLEAN, pos \in Positions :
          MarkAllocBucketBegin(t, b, owned, pos)
    \/ \E t \in CPUs, b \in RaceBuckets :
          MarkMetadataBucketBegin(t, b, "sb", KeySize, TRUE)
    \/ \E t \in CPUs : CallRead(t)
    \/ \E t \in CPUs : CallCmpxchg(t)
    \/ \E t \in CPUs : CallVisited(t)
    \/ \E t \in CPUs : CallUnlock(t)
    \/ GcStartBegin
    \/ GcStartLock
    \/ GcStartReset
    \/ GcStartUnlock
    \/ GcAdvance

SpecGc == InitRace /\ [][NextGc]_vars

\* ------------------------------------------------------------------------
\* The locks of bch2_disk_reservation_add, of the marking calls and of
\* bch2_dev_buckets_resize, step by step
\* ------------------------------------------------------------------------

\* sizes asked of bch2_disk_reservation_add while the device is resized
LockSectorsReq == {1, 64}

\* the device sizes asked of bch2_dev_buckets_resize while sectors are
\* reserved
LockResizeTo == {3}

\* the bucket that the pointers marked meanwhile point into
LockBuckets == {0}

\* the read pin given back before recalculate:
\* percpu_up_read_preempt_enable(&c->mark_lock) before goto recalculate
recalculate_keeps_pin(l, t) == l

recalculate_unpins(l, t) == [l EXCEPT !.r = @ \ {t}]

\* bch2_disk_reservation_add: percpu_down_read_preempt_disable(&c->mark_lock).
\* A caller that passes GC_LOCK_HELD holds gc_lock for the length of the call.
ReservationPin(t, r, n, flags) ==
    /\ nops < MaxOps
    /\ rpc[t].pc = "idle"
    /\ thr[t].pc = "idle"
    /\ res_idle(r)
    /\ can_read_pin
    /\ "GC_LOCK_HELD" \in flags => gc_lock = LockFree
    /\ mark_lock' = [mark_lock EXCEPT !.r = @ \cup {t}]
    /\ gc_lock' = IF "GC_LOCK_HELD" \in flags
                  THEN [gc_lock EXCEPT !.w = {t}] ELSE gc_lock
    /\ rpc' = [rpc EXCEPT ![t] =
                 [pc |-> "pinned", r |-> r, n |-> n, flags |-> flags]]
    /\ nops' = nops + 1
    /\ nofail_called' = (nofail_called \/ "NOFAIL" \in flags)
    /\ UNCHANGED <<capacity, usage, sectors_available, pcpu, res, gc_pos,
                   ndone, last>>
    /\ UNCHANGED mark_vars

\* bch2_disk_reservation_add under the pin: the per-cpu cache, then the pool,
\* and either out: with the pin given back, or goto recalculate once the pin
\* is given back
ReservationFast(t) ==
    /\ rpc[t].pc = "pinned"
    /\ LET c == rpc[t]
           f == reservation_add_fast(sectors_available, pcpu[t], c.n)
       IN  IF f.path = "recalculate"
           THEN /\ mark_lock' = recalculate_unpins(mark_lock, t)
                /\ rpc' = [rpc EXCEPT ![t].pc = "recalculate"]
                /\ UNCHANGED <<sectors_available, pcpu, usage, res, ndone,
                               last, gc_lock>>
           ELSE /\ sectors_available' = f.pool
                /\ pcpu' = [pcpu EXCEPT ![t] = f.cache]
                /\ usage' = [usage EXCEPT ![0][t].online_reserved = @ + c.n]
                /\ res' = [res EXCEPT ![c.r] = @ + c.n]
                /\ ndone' = ndone + 1
                /\ last' = [LastNone EXCEPT
                              !.op = "add", !.cpu = t, !.r = c.r, !.n = c.n,
                              !.flags = c.flags, !.ret = "ok", !.path = f.path,
                              !.pre_pool = sectors_available,
                              !.pre_or = online_reserved_sum,
                              !.pre_res = res[c.r]]
                /\ mark_lock' = [mark_lock EXCEPT !.r = @ \ {t}]
                /\ gc_lock' = [gc_lock EXCEPT !.w = @ \ {t}]
                /\ rpc' = [rpc EXCEPT ![t] = RpcIdle]
    /\ UNCHANGED <<capacity, gc_pos, nops, nofail_called>>
    /\ UNCHANGED mark_vars

NextLocks ==
    \/ \E t \in CPUs, n \in LockSectorsReq, flags \in FlagSets :
          ReservationPin(t, ResOf(t), n, flags)
    \/ \E t \in CPUs : ReservationFast(t)
    \/ \E t \in CPUs : ReservationGcLock(t)
    \/ \E t \in CPUs : ReservationInterrupted(t)
    \/ \E t \in CPUs : ReservationMarkLock(t)
    \/ \E t \in CPUs : ReservationRecalculate(t)
    \/ \E t \in CPUs : thr[t].pc = "idle" /\ ReservationPut(t, ResOf(t))
    \/ \E nbuckets \in LockResizeTo : ResizeAlloc(nbuckets)
    \/ ResizeLockGc
    \/ ResizeLockBucket
    \/ ResizeLockMark
    \/ ResizeCopy
    \/ ResizePublish
    \/ ResizeSwap
    \/ ResizeUnlockMark
    \/ ResizeUnlockBucket
    \/ ResizeUnlockGc
    \/ ResizeFree
    \/ \E a \in Addrs : BucketsFreeRcu(a)
    \/ \E t \in CPUs, cached \in BOOLEAN :
          rpc[t].pc = "idle" /\ MarkKeyLock(t, cached)
    \/ \E t \in CPUs, b \in LockBuckets : MarkKeyBucket(t, b)
    \/ \E t \in CPUs : MarkKeyRead(t)
    \/ \E t \in CPUs : MarkKeyCmpxchg(t)
    \/ \E t \in CPUs : MarkKeyUnlock(t)

SpecLocks == InitResize /\ [][NextLocks]_vars

\* ------------------------------------------------------------------------
\* Claims about the marking engine
\* ------------------------------------------------------------------------

\* this step is a call of mark_key, mark_alloc_bucket or mark_metadata_bucket
\* that returned without an error
marking_call ==
    /\ returned
    /\ last'.op \in {"mark_key", "mark_alloc_bucket", "mark_metadata_bucket"}
    /\ last'.ret = 0
    /\ ~trapped'

\* what the call of this step makes of one world
marked(w, gc, live) ==
    CASE last'.op = "mark_key" ->
            __bch2_mark_key(w, Key(last'.key), last'.inserting, last'.sectors,
                            last'.journal_seq, gc, live).w
      [] last'.op = "mark_alloc_bucket" ->
            __bch2_mark_alloc_bucket(w, last'.b, last'.owned, gc)
      [] last'.op = "mark_metadata_bucket" ->
            __bch2_mark_metadata_bucket(w, last'.b, last'.type, last'.sectors)

\* the world gc after this step, as the CPU t sees it
WorldAfter(gc, t) ==
    [buckets |-> buckets'[gc], dev |-> dev_usage'[gc][t],
     fs |-> usage'[gc][t], stripes |-> stripes'[gc]]

live_marked ==
    WorldAfter(0, last'.cpu) =
        WorldState(marked(World(0, last'.cpu), FALSE, buckets[0]))

live_untouched ==
    /\ buckets'[0] = buckets[0] /\ dev_usage'[0] = dev_usage[0]
    /\ usage'[0] = usage[0] /\ stripes'[0] = stripes[0]

gc_marked ==
    WorldAfter(1, last'.cpu) =
        WorldState(marked(World(1, last'.cpu), TRUE, buckets'[0]))

gc_untouched ==
    /\ buckets'[1] = buckets[1] /\ dev_usage'[1] = dev_usage[1]
    /\ usage'[1] = usage[1] /\ stripes'[1] = stripes[1]

\* the gc world is marked exactly when the caller asked for it or gc has
\* visited the position
gc_dispatch ==
    IF "GC" \in last'.flags \/ last'.visited THEN gc_marked ELSE gc_untouched

\* C8 as stated: every marking call (mark_key, mark_alloc_bucket,
\* mark_metadata_bucket), one made with the GC flag included, updates the live
\* bucket marks and the live usage shard, and updates the gc marks and the gc
\* shard if and only if the GC flag is set or gc_visited(pos) holds.
C8_LiveAlways ==
    [][marking_call => (live_marked /\ gc_dispatch)]_vars

\* C8 amended: a marking call updates the live bucket marks and the live
\* usage shard if and only if it is made without the GC flag (with the GC
\* flag the live world is left as it was), and it updates the gc marks and
\* the gc shard if and only if the GC flag is set or gc_visited(pos) holds.
C8_LiveUnlessGc ==
    [][marking_call =>
        /\ IF "GC" \in last'.flags THEN live_untouched ELSE live_marked
        /\ gc_dispatch]_vars

\* a call with the GC flag that changed the gc world and not the live one
C8_Witness ==
    /\ last.op \in {"mark_key", "mark_alloc_bucket", "mark_metadata_bucket"}
    /\ "GC" \in last.flags /\ last.ret = 0 /\ ~trapped
    /\ last.gc_changed /\ ~last.live_changed

drop_stale(k, bks) ==
    [k EXCEPT !.ptrs =
        SelectSeq(@, LAMBDA p : gen_after(bks[PTR_BUCKET_NR(p)].gen, p.gen) = 0)]

has_stale(k, bks) ==
    \E i \in DOMAIN k.ptrs :
        gen_after(bks[PTR_BUCKET_NR(k.ptrs[i])].gen, k.ptrs[i].gen) > 0

\* C10: when mark_key marks an extent one of whose pointers is stale, that
\* pointer's mutation is dropped in full: the bucket marks, the device usage,
\* the stripes and the filesystem usage (data, cached, replicas[]) end up as
\* if the extent had been marked without the stale pointer.
C10_StaleDropped ==
    [][(/\ marking_call /\ last'.op = "mark_key" /\ "GC" \notin last'.flags
        /\ Key(last'.key).type = "extent"
        /\ has_stale(Key(last'.key), buckets[0]))
       => WorldAfter(0, last'.cpu) =
            WorldState(__bch2_mark_key(World(0, last'.cpu),
                            drop_stale(Key(last'.key), buckets[0]),
                            last'.inserting, last'.sectors,
                            last'.journal_seq, FALSE, buckets[0]).w)]_vars

\* ------------------------------------------------------------------------
\* Invariants of the bucket marks
\* ------------------------------------------------------------------------

\* the marks of both worlds
AllMarks == {buckets[gc][b] : gc \in {0, 1}, b \in DOMAIN buckets[0]}

\* C11 as stated: in every reachable state every bucket has data_type = none
\* if and only if dirty_sectors = 0, cached_sectors = 0 and
\* owned_by_allocator = 0.
C11_NoneIffEmptyAndUnowned ==
    ~trapped =>
        \A m \in AllMarks :
            (m.data_type = "none") <=>
                (m.dirty_sectors = 0 /\ m.cached_sectors = 0
                 /\ ~m.owned_by_allocator)

\* C11 amended: in every reachable state every bucket has data_type = none
\* if and only if dirty_sectors = 0 and cached_sectors = 0, whatever its
\* owned_by_allocator bit is.
C11_NoneIffEmpty ==
    ~trapped =>
        \A m \in AllMarks :
            (m.data_type = "none") <=>
                (m.dirty_sectors = 0 /\ m.cached_sectors = 0)

\* an extent was removed again from an open bucket: the bucket is empty, of
\* type none, and still owned by the allocator
C11_Witness ==
    /\ last.op = "mark_key" /\ ~last.inserting /\ last.ret = 0 /\ ~trapped
    /\ \E b \in Buckets :
        /\ last.before[1][0][b].dirty_sectors > 0
        /\ buckets[0][b].dirty_sectors = 0
        /\ buckets[0][b].data_type = "none"
        /\ buckets[0][b].owned_by_allocator

\* the world the call of this step was made in, and the field of the mark of
\* bucket 0 it adds its sectors to
width_gc == IF last'.gc THEN 1 ELSE 0

width_field(m) ==
    IF last'.op = "mark_pointer" /\ last'.ptr.cached
    THEN m.cached_sectors ELSE m.dirty_sectors

\* C13: a mark_pointer or mark_metadata_bucket update whose signed sector
\* delta would take dirty_sectors or cached_sectors outside 0..32767 traps
\* and publishes nothing; one that stays inside publishes the exact sum; no
\* mark ever holds a sector count outside 0..32767.
C13_CheckedAdd ==
    [][(last.op = "none"
        /\ last'.op \in {"mark_pointer", "mark_metadata_bucket"})
       => LET old == buckets[width_gc][0]
              sum == width_field(old) + last'.sectors
          IN  /\ (sum < 0 \/ sum > SECTORS_MAX)
                    => (trapped' /\ buckets' = buckets
                        /\ dev_usage' = dev_usage /\ usage' = usage)
              /\ (sum >= 0 /\ sum <= SECTORS_MAX)
                    => width_field(buckets'[width_gc][0]) = sum
              /\ \A gc \in {0, 1}, b \in Buckets :
                    /\ buckets'[gc][b].dirty_sectors \in 0..SECTORS_MAX
                    /\ buckets'[gc][b].cached_sectors \in 0..SECTORS_MAX]_vars

\* 50 sectors were to be added to a full count of dirty sectors: trapped,
\* and the mark is as it was
C13_Witness ==
    /\ last.op = "mark_pointer" /\ ~last.ptr.cached /\ last.sectors = 50
    /\ trapped
    /\ last.before[1][0][0].dirty_sectors = SECTORS_MAX
    /\ buckets[0][0].dirty_sectors = SECTORS_MAX

\* this step marks a non-cached pointer on a bucket that is not owned by the
\* allocator and holds 50 cached sectors and no dirty ones
cached_to_dirty ==
    /\ last.op = "none" /\ last'.op = "mark_pointer"
    /\ ~last'.ptr.cached /\ last'.sectors > 0
    /\ ~buckets[width_gc][0].owned_by_allocator
    /\ buckets[width_gc][0].cached_sectors = 50
    /\ buckets[width_gc][0].dirty_sectors = 0

\* the mark and the device usage after such a step: the sectors are dirty,
\* the cached ones remain, and the bucket is counted under the pointer's
\* type and no longer as cached
cached_to_dirty_marked ==
    LET old == buckets[width_gc][0]
        new == buckets'[width_gc][0]
        d0 == dev_usage[width_gc][0]
        d1 == dev_usage'[width_gc][0]
    IN  /\ new.dirty_sectors = last'.sectors
        /\ new.cached_sectors = 50
        /\ new.data_type = "user"
        /\ d1.buckets["cached"] = d0.buckets["cached"] - 1
        /\ d1.buckets["user"] = d0.buckets["user"] + 1
        /\ d1.sectors["cached"] = d0.sectors["cached"]
        /\ d1.buckets_unavailable = d0.buckets_unavailable + 1

round_trip ==
    /\ last.op = "mark_key" /\ last.inserting /\ last.ret = 0 /\ ~trapped
    /\ "GC" \notin last.flags
    /\ last'.op = "mark_key" /\ ~last'.inserting /\ last'.ret = 0
    /\ ~trapped' /\ last'.key = last.key /\ last'.cpu = last.cpu

\* the removal of this step stamps its journal sequence number on bucket b
\* of the world gc: it marked a pointer into b and left b without sectors
seq_stamped(gc, b) ==
    /\ last'.journal_seq # 0
    /\ Key(last'.key).type \in {"extent", "btree_ptr"}
    /\ gc = 0 \/ last'.visited
    /\ \E i \in DOMAIN Key(last'.key).ptrs :
        LET p == Key(last'.key).ptrs[i]
        IN  PTR_BUCKET_NR(p) = b /\ gen_after(buckets[gc][b].gen, p.gen) = 0
    /\ buckets'[gc][b].dirty_sectors = 0
    /\ buckets'[gc][b].cached_sectors = 0

\* before the pair no bucket that a pointer of the key leads into, in either
\* world, held sectors of a data type other than the key's
one_type ==
    Key(last.key).type \in {"extent", "btree_ptr"} =>
        \A gc \in {0, 1}, i \in DOMAIN Key(last.key).ptrs :
            LET m0 == last.before[1][gc][PTR_BUCKET_NR(Key(last.key).ptrs[i])]
            IN  \/ m0.dirty_sectors = 0 /\ m0.cached_sectors = 0
                \/ m0.data_type = IF Key(last.key).type = "extent"
                                  THEN "user" ELSE "btree"

C16_Invalidate ==
    [][(last.op = "none" /\ last'.op = "invalidate_bucket")
       => LET b == last'.b
              t == last'.cpu
              old == buckets[0][b]
          IN  IF old.owned_by_allocator \/ old.dirty_sectors # 0 \/ old.stripe
              THEN trapped' /\ buckets' = buckets /\ usage' = usage
                   /\ dev_usage' = dev_usage
              ELSE /\ ~trapped'
                   /\ buckets'[0][b] =
                        [old EXCEPT !.owned_by_allocator = TRUE,
                                    !.data_type = "none",
                                    !.dirty_sectors = 0, !.cached_sectors = 0,
                                    !.gen = (old.gen + 1) % 256]
                   /\ buckets'[1] = buckets[1]
                   /\ last'.old = old
                   /\ usage'[0][t].cached =
                        usage[0][t].cached - old.cached_sectors
                   /\ usage'[0][t].replicas[1].data["cached"] =
                        usage[0][t].replicas[1].data["cached"]
                            - old.cached_sectors]_vars

\* a bucket of gen 255 with 50 cached sectors and a journal sequence number
\* was invalidated: gen 0, owned, and the number is still there
C16_Witness ==
    /\ last.op = "invalidate_bucket" /\ ~trapped
    /\ last.old.cached_sectors = 50 /\ last.old.gen = 255
    /\ last.old.journal_seq = 5
    /\ buckets[0][0].gen = 0 /\ buckets[0][0].owned_by_allocator
    /\ buckets[0][0].cached_sectors = 0 /\ buckets[0][0].journal_seq = 5

\* C19: when mark_key on an extent meets a stripe reference to a missing or
\* dead stripe on any of its pointers, the call returns an error and has
\* changed no bucket mark, no stripe block counter and no usage counter, in
\* either world.
C19_DeadStripeNoPartialMark ==
    [][(/\ returned /\ last'.op = "mark_key"
        /\ Key(last'.key).type = "extent"
        /\ \E i \in DOMAIN Key(last'.key).ptrs :
            \E j \in DOMAIN Key(last'.key).ptrs[i].ec :
                ~stripes[0][Key(last'.key).ptrs[i].ec[j].idx].alive)
       => /\ last'.ret # 0
          /\ buckets' = buckets /\ stripes' = stripes
          /\ usage' = usage /\ dev_usage' = dev_usage]_vars

\* the number of buckets of the live table whose type is t, a bucket with
\* only cached sectors being of type cached
buckets_of_type(t) ==
    Cardinality({b \in Buckets :
        t = IF /\ buckets[0][b].cached_sectors # 0
               /\ buckets[0][b].dirty_sectors = 0
            THEN "cached" ELSE buckets[0][b].data_type})

\* dev_usage.buckets[t] after this step, summed over the CPUs
buckets_counted(t) ==
    sum_over([cpu \in CPUs |-> dev_usage'[0][cpu].buckets[t]], CPUs)

\* C15 as stated: after dev_usage_from_buckets runs on a device whose usage
\* counters were zero, for every data type t (none included) the summed
\* dev_usage.buckets[t] equals the number of buckets whose type is t, a
\* bucket with only cached sectors counting as type cached, for every
\* bucket table.
C15_EveryType ==
    [][last'.op = "dev_usage_from_buckets"
       => \A t \in DataTypes : buckets_counted(t) = buckets_of_type(t)]_vars

\* C15 amended: the same for every data type t other than none; buckets of
\* type none are not counted, dev_usage.buckets[none] stays 0.
C15_EveryTypeButNone ==
    [][last'.op = "dev_usage_from_buckets"
       => /\ \A t \in DataTypes \ {"none"} :
                buckets_counted(t) = buckets_of_type(t)
          /\ buckets_counted("none") = 0]_vars

\* the usage was rebuilt from a table of a free bucket and a bucket that
\* holds cached sectors only
C15_Witness ==
    /\ last.op = "dev_usage_from_buckets" /\ ~trapped
    /\ buckets[0][0] = BucketMarkZero
    /\ buckets[0][1].cached_sectors = 50 /\ buckets[0][1].dirty_sectors = 0
    /\ dev_usage[0][last.cpu].buckets["cached"] = 1
    /\ dev_usage[0][last.cpu].buckets["user"] = 0

\* ------------------------------------------------------------------------
\* Overlaps
\* ------------------------------------------------------------------------

\* the number of sectors in which the extents k and i overlap
overlap_sectors(k, i) ==
    Max(0, Min(k.pos, i.pos)
           - Max(bkey_start_offset(k), bkey_start_offset(i)))

\* the change in the sectors k's pointer has on disk when i is inserted over
\* k: what is left of k in front of i and behind i, each piece as its
\* compression leaves it on disk, less what k had
overlap_change(k, i) ==
    IF overlap_sectors(k, i) = 0 THEN 0
    ELSE __ptr_disk_sectors(k.ptrs[1],
                            Max(0, bkey_start_offset(i) - bkey_start_offset(k)))
         + __ptr_disk_sectors(k.ptrs[1], Max(0, k.pos - i.pos))
         - ptr_disk_sectors(k.ptrs[1])

\* the sectors mark_update marks for the inserted key of this step
inserted_sectors ==
    IF last'.inserting
    THEN Min(last'.ins.pos, NodeEnd) - bkey_start_offset(last'.ins)
    ELSE 0

\* C17 as stated: when mark_update inserts extent I into a node, the net
\* change in the sectors marked on the pointers of the existing extents K
\* that I overlaps is, for each overlap kind, exactly minus the number of
\* sectors in which K and I overlap, and the bucket of the new extent gains
\* the sectors of I; a full overwrite leaves the old bucket at
\* dirty_sectors = 0 and data_type = none.
C17_MinusOverlap ==
    [][(last'.op = "mark_update" /\ ~trapped')
       => /\ buckets'[0][0].dirty_sectors =
                buckets[0][0].dirty_sectors
                - sum_over([j \in DOMAIN btree |->
                               overlap_sectors(btree[j], last'.ins)],
                           DOMAIN btree)
          /\ buckets'[0][1].dirty_sectors =
                buckets[0][1].dirty_sectors + inserted_sectors
          /\ buckets'[0][0].dirty_sectors = 0
                => buckets'[0][0].data_type = "none"]_vars

\* C17 amended: the net change in the sectors marked on the pointers of an
\* existing extent K that I overlaps is the on-disk size of what is left of
\* K (the piece in front of I and the piece behind it, each scaled by the
\* pointer's compression and rounded up) less the on-disk size of K: minus
\* the overlap for a pointer that is not compressed; the bucket of the new
\* extent gains the sectors of I unless the journal is replayed; a bucket
\* left without sectors has data_type = none.
C17_RemainderLessWhole ==
    [][(last'.op = "mark_update" /\ ~trapped')
       => /\ buckets'[0][0].dirty_sectors =
                buckets[0][0].dirty_sectors
                + sum_over([j \in DOMAIN btree |->
                               overlap_change(btree[j], last'.ins)],
                           DOMAIN btree)
          /\ \A j \in DOMAIN btree :
                btree[j].ptrs[1].crc.compression_type = 0
                    => overlap_change(btree[j], last'.ins) =
                        0 - overlap_sectors(btree[j], last'.ins)
          /\ buckets'[0][1].dirty_sectors =
                buckets[0][1].dirty_sectors + inserted_sectors
          /\ buckets'[0][0].dirty_sectors = 0
                => buckets'[0][0].data_type = "none"]_vars

\* the extent 6..9 was inserted into the middle of the compressed extent
\* 4..11: bucket 0 holds one sector more than before, bucket 1 the four new
\* ones
C17_Witness ==
    /\ last.op = "mark_update" /\ ~trapped /\ last.inserting
    /\ last.ins.pos = 10 /\ last.ins.size = 4
    /\ btree[1].ptrs[1].crc.compression_type # 0
    /\ buckets[0][0].dirty_sectors = last.before[1][0][0].dirty_sectors + 1
    /\ buckets[0][1].dirty_sectors = 4

\* C12: in every reachable state every bucket has
\* dirty_sectors + cached_sectors <= the bucket size of its device.
C12_WithinBucketSize ==
    ~trapped =>
        \A gc \in {0, 1}, b \in Buckets :
            buckets[gc][b].dirty_sectors + buckets[gc][b].cached_sectors
                <= BucketSize

\* the buckets that the old table and the new one both have, while a resize
\* holds both
resize_prefix ==
    0..(Min(mem[ca.buckets].nbuckets, mem[rz.old_buckets].nbuckets) - 1)

\* the device's pointers all lead into one allocation
one_allocation ==
    /\ ca.oldest_gens = ca.buckets
    /\ ca.buckets_nouse = ca.buckets
    /\ ca.buckets_written = ca.buckets

\* C20: a resize under marking calls keeps every bucket below min(N, N'):
\* once the new table is published, and until mark_lock is released, each
\* such bucket has in the new table the mark it has in the old one, and once
\* the arrays are swapped the same oldest gen and the same bits; and a call
\* that holds the read pin of mark_lock never runs while the resize is
\* between its copy and the release of mark_lock, finds the table and the
\* arrays of one allocation, and works on the table that is published.
C20_ResizeUnderLoad ==
    /\ rz.pc \in {"swap", "mark_unlock"} =>
         \A i \in resize_prefix :
            mem[ca.buckets].b[i] = mem[rz.old_buckets].b[i]
    /\ rz.pc = "mark_unlock" =>
         \A i \in resize_prefix :
            /\ mem[ca.oldest_gens].oldest_gens[i]
                 = mem[rz.oldest_gens].oldest_gens[i]
            /\ i \in mem[ca.buckets_nouse].buckets_nouse
                 <=> i \in mem[rz.buckets_nouse].buckets_nouse
            /\ i \in mem[ca.buckets_written].buckets_written
                 <=> i \in mem[rz.buckets_written].buckets_written
    /\ \A t \in mark_lock.r :
         /\ rz.pc \notin {"copy", "publish", "swap", "mark_unlock"}
         /\ one_allocation
         /\ thr[t].buckets # NoTable =>
              /\ thr[t].buckets = ca.buckets
              /\ mem[thr[t].buckets].table = "live"

\* a device shrunk after a marking call has marked bucket 0, at the moment
\* the new table and arrays are in place and mark_lock is still held
C20_Witness ==
    /\ rz.pc = "mark_unlock"
    /\ mem[ca.buckets].nbuckets < mem[rz.old_buckets].nbuckets
    /\ ndone > 0
    /\ mem[ca.buckets].b[0].cached_sectors > 0
    /\ mem[ca.buckets].b[0] = mem[rz.old_buckets].b[0]

\* ------------------------------------------------------------------------
\* Resize without memory
\* ------------------------------------------------------------------------

\* this step is a call of bch2_dev_buckets_resize in which an allocation
\* failed
resize_failed == rz.pc = "idle" /\ rz'.pc = "idle" /\ rz'.calls = rz.calls + 1

\* C21: when an allocation inside bch2_dev_buckets_resize fails, the call
\* returns -ENOMEM; the device's table, oldest gens and bitsets are what they
\* were, no lock is held that was not held, what the call allocated is
\* released, and no table is handed to call_rcu.
C21_NoMemory ==
    [][resize_failed =>
        /\ ~trapped'
        /\ rz'.ret = 0 - ENOMEM
        /\ ca' = ca /\ bucket_array' = bucket_array
        /\ gc_lock' = gc_lock /\ mark_lock' = mark_lock
        /\ \A a \in Addrs :
            /\ mem'[a].table = "rcu" => mem[a].table = "rcu"
            /\ mem[a].table = "none" =>
                 mem'[a].table # "live" /\ mem'[a].arrays # "live"]_vars

\* ------------------------------------------------------------------------
\* The factors
\* ------------------------------------------------------------------------

\* C22: for every r in 0..FactorMax, avail_factor(reserve_factor(r)) <= r,
\* where reserve_factor(r) = r + (round_up(r, 64) >> 6) and
\* avail_factor(r) = floor(64 r / 65).
C22_FactorsRoundTrip ==
    /\ last.op \in {"reserve_factor", "avail_factor"} =>
         last.pre_res = last.n + ((last.n + 63) \div 64)
    /\ last.op = "avail_factor" =>
         /\ last.recomputed = (64 * last.pre_res) \div 65
         /\ last.recomputed <= last.n

\* both factors were applied to a number of sectors that is not a multiple
\* of 64 and lies past 64
C22_Witness ==
    /\ last.op = "avail_factor"
    /\ last.n > 64 /\ last.n % 64 # 0
    /\ last.recomputed <= last.n

\* ------------------------------------------------------------------------
\* Allocator ownership, journal sequence numbers, availability
\* ------------------------------------------------------------------------

\* this step is a bch2_mark_alloc_bucket that marks the live world
alloc_marked == last'.op = "mark_alloc_bucket" /\ "GC" \notin last'.flags

\* what such a step does to the live mark and to the device usage of its
\* CPU: only owned_by_allocator changes, buckets_alloc moves with it and
\* buckets_unavailable with the availability of the bucket
alloc_bit_only ==
    LET old == buckets[0][last'.b]
        new == buckets'[0][last'.b]
        d0 == dev_usage[0][last'.cpu]
        d1 == dev_usage'[0][last'.cpu]
    IN  /\ new = [old EXCEPT !.owned_by_allocator = last'.owned]
        /\ \A b \in Buckets \ {last'.b} : buckets'[0][b] = buckets[0][b]
        /\ d1.buckets_alloc = d0.buckets_alloc
              + b2i(new.owned_by_allocator) - b2i(old.owned_by_allocator)
        /\ d1.buckets_unavailable = d0.buckets_unavailable
              + b2i(~is_available_bucket(new)) - b2i(~is_available_bucket(old))

\* C24 as stated: outside gc, mark_alloc_bucket traps when it sets
\* owned_by_allocator on a bucket that the allocator does not own, and in
\* every other case changes only that bit and moves buckets_alloc and
\* buckets_unavailable by the matching +1 or -1.
C24_TrapsOnSet ==
    [][alloc_marked =>
        /\ trapped' <=> (last'.owned /\ ~buckets[0][last'.b].owned_by_allocator)
        /\ ~trapped' => alloc_bit_only]_vars

\* C24 amended: outside gc, mark_alloc_bucket traps exactly when it clears
\* owned_by_allocator on a bucket that the allocator does not own; in every
\* case the live mark differs from the old one in that bit at most,
\* buckets_alloc moves by the change of the bit, and buckets_unavailable by
\* the change of the bucket's availability, which is 0 for a bucket that
\* holds dirty sectors.
C24_TrapsOnClear ==
    [][alloc_marked =>
        /\ trapped' <=> (~last'.owned /\ ~buckets[0][last'.b].owned_by_allocator)
        /\ alloc_bit_only]_vars

\* the allocator gave up bucket 0 while it held user data: buckets_alloc
\* went down and buckets_unavailable stayed
C24_Witness ==
    /\ last.op = "mark_alloc_bucket" /\ ~last.owned /\ last.flags = {}
    /\ last.b = 0 /\ ~trapped
    /\ last.before[1][0][0].owned_by_allocator
    /\ last.before[1][0][0].dirty_sectors > 0
    /\ ~buckets[0][0].owned_by_allocator
    /\ dev_usage[0][last.cpu].buckets_alloc
         = last.before[2][0][last.cpu].buckets_alloc - 1
    /\ dev_usage[0][last.cpu].buckets_unavailable
         = last.before[2][0][last.cpu].buckets_unavailable

\* this step is a bch2_mark_key of pointers, and bch2_mark_pointer has
\* published a mark of bucket b in the world gc
pointer_marked(gc, b) ==
    /\ last'.op = "mark_key"
    /\ Key(last'.key).type \in {"extent", "btree_ptr"}
    /\ \E i \in DOMAIN Key(last'.key).ptrs :
        LET p == Key(last'.key).ptrs[i]
        IN  PTR_BUCKET_NR(p) = b /\ gen_after(buckets[gc][b].gen, p.gen) = 0
    /\ buckets'[gc][b] # buckets[gc][b]

\* the mark of bucket b in the world gc carries the journal sequence number
\* of this step
stamped(gc, b) ==
    /\ buckets'[gc][b].journal_seq_valid
    /\ buckets'[gc][b].journal_seq = last'.journal_seq

\* the mark of bucket b in the world gc has the journal sequence fields it had
unstamped(gc, b) ==
    /\ buckets'[gc][b].journal_seq_valid = buckets[gc][b].journal_seq_valid
    /\ buckets'[gc][b].journal_seq = buckets[gc][b].journal_seq

\* bucket b of the world gc holds sectors after this step
holds_sectors(gc, b) ==
    buckets'[gc][b].dirty_sectors # 0 \/ buckets'[gc][b].cached_sectors # 0

\* C25 as stated: when mark_pointer is given a non-zero journal sequence
\* number and the bucket still holds sectors after the update, the published
\* mark has journal_seq set to it and journal_seq_valid = 1; when none is
\* given the two fields are unchanged.
C25_StampedWhenSectorsRemain ==
    [][\A gc \in {0, 1}, b \in Buckets :
        pointer_marked(gc, b) =>
            /\ (last'.journal_seq # 0 /\ holds_sectors(gc, b))
                 => stamped(gc, b)
            /\ last'.journal_seq = 0 => unstamped(gc, b)]_vars

\* C25 amended: the published mark has journal_seq set to the number given
\* and journal_seq_valid = 1 exactly when the number is not zero and the
\* update leaves the bucket without dirty and without cached sectors; in
\* every other case the two fields are unchanged.
C25_StampedWhenEmptied ==
    [][\A gc \in {0, 1}, b \in Buckets :
        pointer_marked(gc, b) =>
            IF last'.journal_seq # 0 /\ ~holds_sectors(gc, b)
            THEN stamped(gc, b) ELSE unstamped(gc, b)]_vars

\* an extent was inserted with journal sequence number 5 into bucket 0,
\* which holds its sectors and carries no journal sequence number
C25_Witness ==
    /\ last.op = "mark_key" /\ last.key = "extent" /\ last.inserting
    /\ last.journal_seq = 5 /\ last.flags = {} /\ last.ret = 0
    /\ buckets[0][0].dirty_sectors > 0
    /\ ~buckets[0][0].journal_seq_valid /\ buckets[0][0].journal_seq = 0

\* a bucket of the live table was available before this step and is not
\* after it
live_became_unavailable ==
    \E b \in Buckets :
        /\ is_available_bucket(buckets[0][b])
        /\ ~is_available_bucket(buckets'[0][b])

\* C26 as stated: no mark_pointer call outside gc completes having made an
\* available bucket unavailable, and invalidate_bucket is the only operation
\* that does so in the live world.
C26_OnlyInvalidate ==
    [][(live_became_unavailable /\ ~trapped')
       => last'.op = "invalidate_bucket"]_vars

\* C26 amended: a marking of pointers outside gc that makes a bucket of the
\* live table unavailable traps, after the mark is published; the allocator
\* taking a bucket, a metadata marking and the marking of a stripe make an
\* available bucket unavailable without a trap, as invalidate_bucket does.
C26_PointerTraps ==
    [][(/\ live_became_unavailable
        /\ last'.op = "mark_key"
        /\ Key(last'.key).type \in {"extent", "btree_ptr"})
       => trapped']_vars

\* an extent was inserted into bucket 0 after the allocator gave it up: the
\* sectors are marked and the call trapped
C26_Witness ==
    /\ last.op = "mark_key" /\ last.key = "extent" /\ last.inserting
    /\ last.flags = {} /\ trapped
    /\ is_available_bucket(last.before[1][0][0])
    /\ buckets[0][0].dirty_sectors > 0

\* the transitions of this step that took a bucket mark, of the live table or
\* of gc's, from unavailable to available
became_available ==
    {x \in {0, 1} \X Buckets :
        /\ ~is_available_bucket(buckets[x[1]][x[2]])
        /\ is_available_bucket(buckets'[x[1]][x[2]])}

\* C27: a marking operation wakes the device's allocator once for every
\* bucket mark that it takes from unavailable to available, whether or not a
\* trap follows, and issues no other wake-up.
C27_WakeOnAvailable ==
    [][last'.wake = Cardinality(became_available)]_vars

\* the allocator gave up bucket 0, which held no dirty sectors, and was woken
C27_Witness ==
    /\ last.op = "mark_alloc_bucket" /\ ~last.owned /\ last.flags = {}
    /\ last.b = 0 /\ ~trapped
    /\ ~is_available_bucket(last.before[1][0][0])
    /\ is_available_bucket(buckets[0][0])
    /\ last.wake = 1

\* ------------------------------------------------------------------------
\* Claims about concurrent calls
\* ------------------------------------------------------------------------

\* this step is a step of bch2_bucket_seq_cleanup
cleanup_step == calls'[CleanupThread] # calls[CleanupThread]

\* the mark m was stamped by a journal entry before last_seq_ondisk
seq_older(m, last_seq_ondisk) ==
    /\ m.journal_seq_valid
    /\ LET d == (last_seq_ondisk - m.journal_seq)
                    % (2 ^ BUCKET_JOURNAL_SEQ_BITS)
       IN  d >= 1 /\ d < 2 ^ (BUCKET_JOURNAL_SEQ_BITS - 1)

\* C23: bch2_bucket_seq_cleanup begins its sweep only when the journal is at
\* least 1 << (BUCKET_JOURNAL_SEQ_BITS - 2) entries past the last sweep. A
\* step of the sweep changes no mark of gc's table and at most
\* journal_seq_valid of the live mark it is at. When that bucket holds the
\* mark the sweep read, a mark stamped before the last sequence number on
\* disk is left with journal_seq_valid = 0 and a mark that needs a journal
\* commit is left as it is, and the sweep goes on to the next bucket; when a
\* marking call has published another mark since, the sweep changes nothing
\* unless the mark it read lets it skip the bucket, and tries again with the
\* mark it found.
C23_SeqCleanup ==
    [][cleanup_step =>
        LET c == calls[CleanupThread]
            d == calls'[CleanupThread]
            cur == buckets[0][c.g]
        IN  /\ (c.pc = "idle") =>
                 journal.seq - journal.last_bucket_seq_cleanup
                    >= 2 ^ (BUCKET_JOURNAL_SEQ_BITS - 2)
            /\ buckets'[1] = buckets[1]
            /\ \A b \in Buckets :
                 buckets'[0][b] # buckets[0][b] =>
                    /\ c.pc = "cmpxchg" /\ b = c.g
                    /\ buckets'[0][b]
                         = [buckets[0][b] EXCEPT !.journal_seq_valid = FALSE]
            /\ (c.pc = "cmpxchg" /\ cur = c.v) =>
                 /\ seq_older(cur, c.last_seq_ondisk) =>
                      ~buckets'[0][c.g].journal_seq_valid
                 /\ bucket_needs_journal_commit(cur, c.last_seq_ondisk) =>
                      buckets'[0][c.g] = cur
                 /\ d.pc = "read" /\ d.g = c.g + 1
            /\ (c.pc = "cmpxchg" /\ cur # c.v) =>
                 /\ buckets' = buckets
                 /\ d.pc = "cmpxchg" => d.v = cur /\ d.g = c.g]_vars

\* the sweep has cleared journal_seq_valid of bucket 1 and is at the end of
\* the table, while a marking call is inside its cmpxchg loop
C23_Witness ==
    /\ calls[CleanupThread].pc = "read"
    /\ calls[CleanupThread].g = NBuckets
    /\ ~buckets[0][1].journal_seq_valid
    /\ \E t \in CPUs : calls[t].pc = "cmpxchg"

\* the device counters C28 names: sectors and buckets of each type,
\* buckets_alloc and buckets_unavailable
RaceCounters ==
    ({"sectors", "buckets"} \X DataTypes)
    \cup {<<"buckets_alloc", "none">>, <<"buckets_unavailable", "none">>}

counter(u, k) ==
    CASE k[1] = "sectors" -> u.sectors[k[2]]
      [] k[1] = "buckets" -> u.buckets[k[2]]
      [] k[1] = "buckets_alloc" -> u.buckets_alloc
      [] OTHER -> u.buckets_unavailable

\* a counter summed over the shards of the CPUs
summed(shards, k) ==
    sum_over([cpu \in CPUs |-> counter(shards[cpu], k)], CPUs)

\* a counter as the marks of a table give it
derived(marks, k) ==
    CASE k[1] = "sectors" ->
            sum_over([b \in DOMAIN marks |->
                        (IF marks[b].data_type = k[2]
                         THEN marks[b].dirty_sectors ELSE 0)
                        + (IF k[2] = "cached"
                           THEN marks[b].cached_sectors ELSE 0)],
                     DOMAIN marks)
      [] k[1] = "buckets" ->
            IF k[2] = "none" THEN 0
            ELSE Cardinality({b \in DOMAIN marks :
                    (IF marks[b].cached_sectors # 0
                        /\ marks[b].dirty_sectors = 0
                     THEN "cached" ELSE marks[b].data_type) = k[2]})
      [] k[1] = "buckets_alloc" ->
            Cardinality({b \in DOMAIN marks : marks[b].owned_by_allocator})
      [] OTHER ->
            Cardinality({b \in DOMAIN marks :
                    marks[b].owned_by_allocator \/ marks[b].dirty_sectors # 0
                    \/ marks[b].stripe})

\* no marking call is in flight
no_call == \A t \in CPUs : calls[t].pc = "idle"

unaccounted_round ==
    \E t \in CPUs :
        /\ calls[t].pc = "cmpxchg" /\ calls'[t] # calls[t]
        /\ (~calls[t].op.fs \/ "NOATOMIC" \in calls[t].op.flags)

gc_reset == calls[GcThread].pc = "reset" /\ calls'[GcThread].pc = "unlock"

waits(t) ==
    \/ /\ t \in CPUs
       /\ rpc[t].pc \in {"recalculate", "mark_lock"}
       /\ ~ENABLED (\/ ReservationGcLock(t)
                    \/ ReservationInterrupted(t)
                    \/ ReservationMarkLock(t))
    \/ /\ t = ResizeThread
       /\ rz.pc \in {"gc_lock", "bucket_lock", "mark_lock"}
       /\ ~ENABLED (ResizeLockGc \/ ResizeLockBucket \/ ResizeLockMark)

\* the threads with a call under way
under_way ==
    {t \in CPUs : rpc[t].pc # "idle" \/ thr[t].pc # "idle"}
        \cup {t \in {ResizeThread} : rz.pc # "idle"}

\* the locks that thread t holds
held(t) ==
    {l \in {"gc_lock", "mark_lock"} :
        \/ l = "gc_lock" /\ t \in gc_lock.w \cup gc_lock.r
        \/ l = "mark_lock" /\ t \in mark_lock.w \cup mark_lock.r}

\* C30: bch2_disk_reservation_add holds no read pin on mark_lock while it
\* waits for gc_lock or for mark_lock in write mode; whoever holds mark_lock
\* in write mode, the reservation or the resize, holds gc_lock as well; while
\* any call is under way and nothing has trapped, some call under way can
\* take its next step; and a CPU that is in no call holds no lock.
C30_NoDeadlock ==
    /\ \A t \in CPUs :
         /\ rpc[t].pc \in {"recalculate", "mark_lock"} => t \notin mark_lock.r
         /\ t \in mark_lock.w => t \in gc_lock.w \cup gc_lock.r
         /\ (rpc[t].pc = "idle" /\ thr[t].pc = "idle") => held(t) = {}
    /\ ResizeThread \in mark_lock.w => ResizeThread \in gc_lock.w
    /\ ~trapped => \A t \in under_way : waits(t) => \E u \in under_way : ~waits(u)

\* C30 witness: a reservation's recalculation waits for gc_lock, with no
\* lock held, while the resize holds gc_lock and mark_lock in write mode and
\* a reservation was interrupted before
C30_Witness ==
    /\ \E t \in CPUs :
         /\ rpc[t].pc = "recalculate"
         /\ "GC_LOCK_HELD" \notin rpc[t].flags
         /\ held(t) = {}
    /\ ResizeThread \in gc_lock.w
    /\ ResizeThread \in mark_lock.w
    /\ last.op = "add"
    /\ last.ret = "EINTR"

\* ------------------------------------------------------------------------
\* Claims about outstanding reservations
\* ------------------------------------------------------------------------

\* the sum of res.sectors over the reservations
outstanding(sectors) == sectors[1] + sectors[2]

\* this step is a __bch2_disk_reservation_put of reservation r
put_of(r) == last' # last /\ last'.op = "put" /\ last'.r = r

\* C31: before and after every step of reservation_add, reservation_put and
\* apply, run from any CPU on any reservation, the live online_reserved
\* summed over the shards equals the sum of res.sectors over the
\* reservations and is not negative; a reservation_put leaves res.sectors
\* of its reservation 0, and a reservation_put of a reservation whose
\* res.sectors is 0 changes no counter, no reservation, and neither the pool
\* nor the per-CPU caches.
C31_OnlineReserved ==
    [][/\ online_reserved_sum = outstanding(res)
       /\ online_reserved_sum >= 0
       /\ bch2_usage_read_raw(usage'[0]).online_reserved = outstanding(res')
       /\ outstanding(res') >= 0
       /\ \A r \in ResIds :
            put_of(r) =>
              /\ res'[r] = 0
              /\ res[r] = 0 =>
                    UNCHANGED <<usage, res, sectors_available, pcpu>>]_vars

\* a second release of reservation 1 right after its first, from the other
\* CPU, while reservation 2 is outstanding
C31_Witness ==
    /\ nops = 2
    /\ last.op = "put" /\ last.r = 1 /\ last.cpu = 1 /\ last.pre_res = 0
    /\ live_usage.data = 0
    /\ usage[0][0].online_reserved > 0
    /\ usage[0][1].online_reserved < 0
    /\ res[2] > 0
    /\ online_reserved_sum = res[2]

====
